---- MODULE Spec2Model ----
(***************************************************************************)
(* Conversation controller of the LEKSNIPER shop bot (src/main.py) and its *)
(* record store (src/database.py).                                         *)
(*                                                                         *)
(* Texts are sequences of one-letter tokens.  The source is in Russian;    *)
(* every Cyrillic letter is written as one Latin token (an injective       *)
(* letter-for-letter transliteration: zh, ch, sh, ya, yu, ' are single     *)
(* tokens), capitals as capital tokens, so that lower(), strip(), ==,      *)
(* and the substring test `word in text` are computed letter by letter as  *)
(* the code computes them.                                                 *)
(*                                                                         *)
(* Environment: a reply to the chat whose event is being handled           *)
(* (message.answer, callback.answer) is delivered.  A send to another      *)
(* chat (operator notification, broadcast recipient), an edit or delete    *)
(* of an earlier message, a photo upload, a provider call and a database   *)
(* operation may each fail.                                                *)
(***************************************************************************)
EXTENDS Integers, Sequences, FiniteSets, TLC

\* ------------------------------------------------------------------ bounds
\* rows in the orders and wholesale_requests tables together
MaxRows == 1
\* registered users a broadcast may find
MaxRecipients == 3
\* updates of one run whose handlers are suspended at the same time
MaxTasks == 2

\* --------------------------------------------------------------- identities
ADMIN_ID == 1
Users == {1, 2}
\* message.from_user.username: user 1 has one, user 2 has none
Username(u) == IF u = ADMIN_ID THEN <<"o","p","e","r">> ELSE <<"(None)">>

\* --------------------------------------------------------------------- text
\* message.text of a message without text (a photo, a sticker) is None
NoText == <<"(None)">>
\* a key that is not in the FSM data dictionary
Missing == <<"(missing)">>
NoPid == "(missing)"

Lower(c) ==
    CASE c = "A" -> "a" [] c = "B" -> "b" [] c = "V" -> "v" [] c = "G" -> "g"
      [] c = "D" -> "d" [] c = "E" -> "e" [] c = "Z" -> "z" [] c = "I" -> "i"
      [] c = "K" -> "k" [] c = "L" -> "l" [] c = "M" -> "m" [] c = "N" -> "n"
      [] c = "O" -> "o" [] c = "P" -> "p" [] c = "R" -> "r" [] c = "S" -> "s"
      [] c = "T" -> "t" [] c = "U" -> "u" [] c = "H" -> "h" [] c = "Sh" -> "sh"
      [] c = "Zh" -> "zh" [] c = "Ch" -> "ch" [] c = "Ya" -> "ya"
      [] c = "lat:A" -> "lat:a" [] c = "lat:I" -> "lat:i"
      [] OTHER -> c

\* str.lower()
LowerText(t) == [i \in 1..Len(t) |-> Lower(t[i])]

IsSpace(c) == c = " "

RECURSIVE LStrip(_)
LStrip(t) == IF t # <<>> /\ IsSpace(Head(t)) THEN LStrip(Tail(t)) ELSE t

RECURSIVE RStrip(_)
RStrip(t) ==
    IF t # <<>> /\ IsSpace(t[Len(t)]) THEN RStrip(SubSeq(t, 1, Len(t) - 1)) ELSE t

\* str.strip()
Strip(t) == RStrip(LStrip(t))

\* `word in text` for two strings: word occurs as a contiguous run of text
Contains(text, word) ==
    \E i \in 0..(Len(text) - Len(word)) :
        \A j \in 1..Len(word) : text[i + j] = word[j]

\* any(word in text for word in words)
AnyIn(words, text) == \E k \in 1..Len(words) : Contains(text, words[k])

\* confirm_handler's confirm_words
confirm_words ==
    << <<"d","a">>,
       <<"s","o","g","l","a","s","e","n">>,
       <<"o","f","o","r","m","l","ya","j">>,
       <<"b","e","r","u">>,
       <<"o","k">>,
       <<"h","o","r","o","sh","o">>,
       <<"d","a","v","a","j">>,
       <<"h","o","ch","u">>,
       <<"p","o","d","t","v","e","r","zh","d","a","yu">>,
       <<"k","a","k","a","ya">>,
       <<"ch","t","o"," ","n","u","zh","n","o">> >>

\* confirm_handler's negative words
cancel_words ==
    << <<"n","e","t">>,
       <<"o","t","m","e","n","a">>,
       <<"n","e"," ","n","a","d","o">>,
       <<"s","t","o","p">> >>

\* ai_handler's order words
order_words ==
    << <<"o","f","o","r","m","i","t","'">>,
       <<"z","a","k","a","z">>,
       <<"k","u","p","i","t","'">>,
       <<"o","f","o","r","m","l","ya","e","m">> >>

\* ai_handler's "starting now" words
ready_words ==
    << <<"p","r","i","s","t","u","p","a","yu">>,
       <<"o","f","o","r","m","l","ya","e","m">>,
       <<"i","n","f","o","r","m","a","c","i","ya">>,
       <<"d","a","n","n","y","e">> >>

\* the four reply-keyboard labels
BTN_CATALOG == <<"[bag]"," ","K","A","T","A","L","O","G">>
BTN_AI == <<"[robot]"," ","lat:A","lat:I"," ","A","s","s","i","s","t","e","n","t">>
BTN_WHOLESALE ==
    <<"[box]"," ","O","p","t","o","v","y","j"," ","z","a","p","r","o","s"," ","/"," ",
      "G","u","m","a","n","i","t","a","r","k","a">>
BTN_EXIT == <<"[x]"," ","V","y","j","t","i"," ","i","z"," ","ch","a","t","a">>

\* ------------------------------------------------------------ input samples
T_start == <<"/","s","t","a","r","t">>
\* "/start da net": the command with a payload of an affirmative and a negative word
T_start_arg == <<"/","s","t","a","r","t"," ","d","a"," ","n","e","t">>
T_admin == <<"/","a","d","m","i","n">>
\* "Da": affirmative only
T_yes == <<"D","a">>
\* "net": negative only
T_no == <<"n","e","t">>
\* "da net": an affirmative and a negative word
T_yes_no == <<"d","a"," ","n","e","t">>
\* "Ivan": neither vocabulary
T_plain == <<"I","v","a","n">>

FreeTexts == {T_yes, T_no, T_yes_no, T_plain}
\* the texts sampled where the text is kept as data (a name, a contact, a
\* request, a broadcast) or passed on to the provider
DataTexts == {T_plain, T_yes}
MenuTexts == {BTN_CATALOG, BTN_AI, BTN_WHOLESALE, BTN_EXIT}
CommandTexts == {T_start, T_start_arg, T_admin}

\* ----------------------------------------------------------------- catalog
\* catalog.json as load_catalog() returns it, in the file's order: categories,
\* their subcategories, their items
FullCatalog ==
    << [code |-> "c1", name |-> <<"N","o","zh","i">>,
        subcats |-> << [code |-> "s1", name |-> <<"B","o","e","v","y","e">>,
                        items |-> << [id |-> "p1", name |-> <<"N","o","zh">>,
                                      price |-> "100"] >>] >>],
       [code |-> "c2", name |-> <<"Z","a","sch","i","t","a">>,
        subcats |-> << [code |-> "s2", name |-> <<"G","o","l","o","v","a">>,
                        items |-> << [id |-> "p2", name |-> <<"Sh","l","e","m">>,
                                      price |-> "200"] >>] >>] >>

\* a catalog.json one of whose category codes holds the character ':'
ColonCatalog ==
    << [code |-> "c1", name |-> <<"N","o","zh","i">>,
        subcats |-> << [code |-> "s1", name |-> <<"B","o","e","v","y","e">>,
                        items |-> << [id |-> "p1", name |-> <<"N","o","zh">>,
                                      price |-> "100"] >>] >>],
       [code |-> "c1:x", name |-> <<"Z","a","sch","i","t","a">>,
        subcats |-> << [code |-> "s2", name |-> <<"G","o","l","o","v","a">>,
                        items |-> << [id |-> "p2", name |-> <<"Sh","l","e","m">>,
                                      price |-> "200"] >>] >>] >>

\* the two items in two subcategories of one category, and in one subcategory
SubcatsCatalog ==
    << [code |-> "c1", name |-> <<"N","o","zh","i">>,
        subcats |-> << [code |-> "s1", name |-> <<"G","o","l","o","v","a">>,
                        items |-> << [id |-> "p2", name |-> <<"Sh","l","e","m">>,
                                      price |-> "200"] >>],
                       [code |-> "s2", name |-> <<"B","o","e","v","y","e">>,
                        items |-> << [id |-> "p1", name |-> <<"N","o","zh">>,
                                      price |-> "100"] >>] >>] >>
ItemsCatalog ==
    << [code |-> "c1", name |-> <<"N","o","zh","i">>,
        subcats |-> << [code |-> "s1", name |-> <<"B","o","e","v","y","e">>,
                        items |-> << [id |-> "p2", name |-> <<"Sh","l","e","m">>,
                                      price |-> "200"],
                                     [id |-> "p1", name |-> <<"N","o","zh">>,
                                      price |-> "100"] >>] >>] >>

\* what load_catalog() returns when the file is absent or malformed
EmptyCatalog == <<>>

CatCodes == {"c1", "c2", "cX"}
SubcatCodes == {"s1", "s2", "sX"}
ItemIds == {"p1", "p2", "pX"}

RECURSIVE ItemsOfSubcat(_, _, _)
ItemsOfSubcat(items, cat_code, subcat_code) ==
    IF items = <<>> THEN <<>>
    ELSE << [id |-> Head(items).id, name |-> Head(items).name,
             price |-> Head(items).price,
             cat_code |-> cat_code, subcat_code |-> subcat_code] >>
         \o ItemsOfSubcat(Tail(items), cat_code, subcat_code)

RECURSIVE ItemsOfCat(_, _)
ItemsOfCat(subcats, cat_code) ==
    IF subcats = <<>> THEN <<>>
    ELSE ItemsOfSubcat(Head(subcats).items, cat_code, Head(subcats).code)
         \o ItemsOfCat(Tail(subcats), cat_code)

\* ALL_PRODUCTS, as the sequence of its values in insertion order
RECURSIVE BuildProducts(_)
BuildProducts(catalog) ==
    IF catalog = <<>> THEN <<>>
    ELSE ItemsOfCat(Head(catalog).subcats, Head(catalog).code)
         \o BuildProducts(Tail(catalog))

\* ------------------------------------------------------------------- state
NoState == "None"
Order_name == "Order:name"
Order_contact == "Order:contact"
Order_ai_chat == "Order:ai_chat"
Order_wholesale == "Order:wholesale"
Order_confirm == "Order:confirm"
AdminBroadcast_message == "AdminBroadcast:message"

States == {NoState, Order_name, Order_contact, Order_ai_chat, Order_wholesale,
           Order_confirm, AdminBroadcast_message}

EmptyData == [pid |-> NoPid, name |-> Missing]

VARIABLES
    CATALOG,             \* the parsed catalog, fixed at startup
    ALL_PRODUCTS,        \* the flat item lookup built from CATALOG at startup
    client,              \* whether the provider client was constructed
    senders,             \* the users whose events arrive in this run
    state,               \* FSM storage: user -> state
    data,                \* FSM storage: user -> data dictionary (pid, name)
    users,               \* table users: the user_id keys
    orders,              \* table orders, in insertion order
    wholesale_requests,  \* table wholesale_requests, in insertion order
    out,                 \* the calls the last handler made to the outside (sends,
                         \* database operations, provider requests), in order
    tasks                \* the handlers suspended at an await of a send or of
                         \* the provider, each with what it resumes with

vars == <<CATALOG, ALL_PRODUCTS, client, senders, state, data, users, orders,
          wholesale_requests, out, tasks>>

\* pid in ALL_PRODUCTS
InProducts(pid) == \E i \in 1..Len(ALL_PRODUCTS) : ALL_PRODUCTS[i].id = pid

\* ALL_PRODUCTS[pid]
Product(pid) ==
    ALL_PRODUCTS[CHOOSE i \in 1..Len(ALL_PRODUCTS) : ALL_PRODUCTS[i].id = pid]

\* cat_code in CATALOG
InCatalog(cat_code) == \E i \in 1..Len(CATALOG) : CATALOG[i].code = cat_code

Category(cat_code) ==
    CATALOG[CHOOSE i \in 1..Len(CATALOG) : CATALOG[i].code = cat_code]

\* subcat_code in CATALOG[cat_code]["subcats"]
InSubcats(cat_code, subcat_code) ==
    \E i \in 1..Len(Category(cat_code).subcats) :
        Category(cat_code).subcats[i].code = subcat_code

\* str.split(":") of a code or id: a string is held as the sequence of its
\* parts between the ':' characters
Segments(code) == IF code = "c1:x" THEN <<"c1", "x">> ELSE <<code>>

\* f"{prefix}:{code}:..." as callback.data.split(":") returns it
RECURSIVE Token(_, _)
Token(prefix, codes) ==
    IF codes = <<>> THEN prefix
    ELSE Token(prefix \o Segments(Head(codes)), Tail(codes))

BTN_BACK == <<"[left]"," ","N","a","z","a","d">>
BTN_BUY == <<"[card]"," ","K","U","P","I","T","Q">>

\* an inline keyboard: its rows of one button, in order
get_cats_kb ==
    [i \in 1..Len(CATALOG) |->
        [text |-> CATALOG[i].name, callback_data |-> Token(<<"cat">>, <<CATALOG[i].code>>)]]

get_subcats_kb(cat_code) ==
    IF ~InCatalog(cat_code) THEN <<>>
    ELSE LET subcats == Category(cat_code).subcats IN
         [i \in 1..Len(subcats) |->
             [text |-> subcats[i].name,
              callback_data |-> Token(<<"sub">>, <<cat_code, subcats[i].code>>)]]
         \o << [text |-> BTN_BACK, callback_data |-> <<"back", "main">>] >>

get_items_kb(cat_code, subcat_code) ==
    IF ~InCatalog(cat_code) \/ ~InSubcats(cat_code, subcat_code) THEN <<>>
    ELSE LET subcats == Category(cat_code).subcats
             items == subcats[CHOOSE i \in 1..Len(subcats) :
                                  subcats[i].code = subcat_code].items
         IN  [i \in 1..Len(items) |->
                 [text |-> items[i].name \o <<" ","|"," ">> \o <<items[i].price>>,
                  callback_data |-> Token(<<"prod">>, <<items[i].id>>)]]
             \o << [text |-> BTN_BACK,
                    callback_data |-> Token(<<"back", "cat">>, <<cat_code>>)] >>

get_prod_kb(pid) ==
    IF ~InProducts(pid) THEN <<>>
    ELSE << [text |-> BTN_BUY, callback_data |-> Token(<<"buy">>, <<pid>>)],
            [text |-> BTN_BACK,
             callback_data |-> Token(<<"back", "sub">>,
                                     <<Product(pid).cat_code, Product(pid).subcat_code>>)] >>

InitStore ==
    /\ state = [u \in Users |-> NoState]
    /\ data = [u \in Users |-> EmptyData]
    /\ orders = <<>>
    /\ wholesale_requests = <<>>
    /\ out = <<>>
    /\ tasks = {}

\* catalog.json present, provider client constructed, one user talking
Init ==
    /\ CATALOG = FullCatalog
    /\ ALL_PRODUCTS = BuildProducts(CATALOG)
    /\ client = TRUE
    /\ senders \in {{u} : u \in Users}
    /\ users = {}
    /\ InitStore

\* ---------------------------------------------------------------- outputs
Sent(to, kind, arg) == [to |-> to, kind |-> kind, arg |-> arg, ok |-> TRUE]
Tried(to, kind, arg, ok) == [to |-> to, kind |-> kind, arg |-> arg, ok |-> ok]
\* a database operation on behalf of user_id, or a provider request for user_id
Called(user_id, kind, arg, ok) == [to |-> user_id, kind |-> kind, arg |-> arg, ok |-> ok]

\* a clear that empties the whole storage, not the key of the user
Clear_All(u) ==
    /\ state' = [v \in Users |-> NoState]
    /\ data' = [v \in Users |-> EmptyData]

\* state.clear(): no state, empty data
Clear(u) ==
    /\ state' = [state EXCEPT ![u] = NoState]
    /\ data' = [data EXCEPT ![u] = EmptyData]

\* --------------------------------------------------------------- dispatch
RECURSIVE FirstWord(_)
FirstWord(t) ==
    IF t = <<>> \/ IsSpace(Head(t)) THEN <<>> ELSE <<Head(t)>> \o FirstWord(Tail(t))

\* CommandStart() / Command("admin"): the first word of the text is the command
IsCommand(t, command) == t # NoText /\ FirstWord(t) = <<"/">> \o command

\* Route with the state handlers registered before the commands and the menu
Route_StateFirst(t, st) ==
    CASE st = Order_ai_chat -> "ai_handler"
      [] st = Order_confirm -> "confirm_handler"
      [] st = Order_wholesale -> "wholesale_handler"
      [] st = Order_name -> "process_name"
      [] st = Order_contact -> "process_contact"
      [] st = AdminBroadcast_message -> "admin_broadcast_send"
      [] IsCommand(t, <<"s","t","a","r","t">>) -> "start"
      [] IsCommand(t, <<"a","d","m","i","n">>) -> "admin_panel"
      [] t = BTN_CATALOG -> "show_cats"
      [] t = BTN_AI -> "ai_start"
      [] t = BTN_WHOLESALE -> "wholesale_start"
      [] t = BTN_EXIT -> "ai_exit"
      [] OTHER -> "unhandled"

\* the first registered message handler whose filter accepts (text, state)
Route(t, st) ==
    CASE IsCommand(t, <<"s","t","a","r","t">>) -> "start"
      [] IsCommand(t, <<"a","d","m","i","n">>) -> "admin_panel"
      [] t = BTN_CATALOG -> "show_cats"
      [] t = BTN_AI -> "ai_start"
      [] t = BTN_WHOLESALE -> "wholesale_start"
      [] t = BTN_EXIT -> "ai_exit"
      [] st = Order_ai_chat -> "ai_handler"
      [] st = Order_confirm -> "confirm_handler"
      [] st = Order_wholesale -> "wholesale_handler"
      [] st = Order_name -> "process_name"
      [] st = Order_contact -> "process_contact"
      [] st = AdminBroadcast_message -> "admin_broadcast_send"
      [] OTHER -> "unhandled"

Fixed == UNCHANGED <<CATALOG, ALL_PRODUCTS, client, senders, tasks>>
Tables == <<users, orders, wholesale_requests>>

\* message.from_user.username or default
UsernameOr(u, default) == IF Username(u) = NoText THEN default ELSE Username(u)

\* ------------------------------------------------------- commands and menu
\* database.add_user (58-74): the row is upserted, or the error is logged and
\* swallowed
add_user(rows, dbOk, user_id) == IF dbOk THEN rows \cup {user_id} ELSE rows

start(u, t) ==
    /\ Route(t, state[u]) = "start"
    /\ Clear(u)
    /\ \E dbOk \in BOOLEAN :
        /\ users' = add_user(users, dbOk, u)
        /\ out' = << Called(u, "db:add_user", <<>>, dbOk), Sent(u, "welcome", <<>>) >>
    /\ UNCHANGED <<orders, wholesale_requests>>
    /\ Fixed

admin_panel(u, t) ==
    /\ Route(t, state[u]) = "admin_panel"
    /\ out' = IF u # ADMIN_ID THEN << Sent(u, "no_access", <<>>) >>
              ELSE << Sent(u, "admin_panel", <<>>) >>
    /\ UNCHANGED <<state, data, Tables>>
    /\ Fixed

\* show_cats without the test of CATALOG
show_cats_NoCheck(u, t) ==
    /\ Route(t, state[u]) = "show_cats"
    /\ Clear(u)
    /\ out' = << Sent(u, "choose_category", <<>>) >>
    /\ UNCHANGED Tables
    /\ Fixed

show_cats(u, t) ==
    /\ Route(t, state[u]) = "show_cats"
    /\ Clear(u)
    /\ out' = IF CATALOG = <<>> THEN << Sent(u, "catalog_unavailable", <<>>) >>
              ELSE << Sent(u, "choose_category", <<>>) >>
    /\ UNCHANGED Tables
    /\ Fixed

\* ai_start that enters the chat also when there is no client
ai_start_AlwaysEnters(u, t) ==
    /\ Route(t, state[u]) = "ai_start"
    /\ state' = [state EXCEPT ![u] = Order_ai_chat]
    /\ out' = << Sent(u, IF client THEN "ai_activated" ELSE "ai_unavailable", <<>>) >>
    /\ UNCHANGED <<data, Tables>>
    /\ Fixed

ai_start(u, t) ==
    /\ Route(t, state[u]) = "ai_start"
    /\ IF ~client
       THEN /\ out' = << Sent(u, "ai_unavailable", <<>>) >>
            /\ UNCHANGED state
       ELSE /\ state' = [state EXCEPT ![u] = Order_ai_chat]
            /\ out' = << Sent(u, "ai_activated", <<>>) >>
    /\ UNCHANGED <<data, Tables>>
    /\ Fixed

wholesale_start(u, t) ==
    /\ Route(t, state[u]) = "wholesale_start"
    /\ state' = [state EXCEPT ![u] = Order_wholesale]
    /\ out' = << Sent(u, "wholesale_prompt", <<>>) >>
    /\ UNCHANGED <<data, Tables>>
    /\ Fixed

\* ai_exit that changes the state and keeps the data
ai_exit_KeepsContext(u, t) ==
    /\ Route(t, state[u]) = "ai_exit"
    /\ state' = [state EXCEPT ![u] = NoState]
    /\ out' = << Sent(u, "main_menu", <<>>) >>
    /\ UNCHANGED <<data, Tables>>
    /\ Fixed

ai_exit(u, t) ==
    /\ Route(t, state[u]) = "ai_exit"
    /\ Clear(u)
    /\ out' = << Sent(u, "main_menu", <<>>) >>
    /\ UNCHANGED Tables
    /\ Fixed

\* a message no handler's filter accepts is dropped
unhandled(u, t) ==
    /\ Route(t, state[u]) = "unhandled"
    /\ out' = <<>>
    /\ UNCHANGED <<state, data, Tables>>
    /\ Fixed

\* ------------------------------------------------------------------ AI chat
\* what client.chat.completions.create may answer
R_hello == <<"P","r","i","v","e","t">>
R_item == <<"N","o","zh">>
R_order_no_item == <<"z","a","k","a","z">>
R_item_ready == <<"n","o","zh"," ","d","a","n","n","y","e">>
R_item_order == <<"Sh","l","e","m"," ","k","u","p","i","t","'">>
R_item_order_ready == <<"sh","l","e","m"," ","O","f","o","r","m","l","ya","e","m">>
R_two_items == <<"sh","l","e","m"," ","n","o","zh"," ","z","a","k","a","z">>
AiReplies == {R_hello, R_item, R_order_no_item, R_item_ready, R_item_order,
              R_item_order_ready, R_two_items}
\* the request raised
ProviderError == <<"(error)">>

\* the search that keeps the last product whose name is in the reply
RECURSIVE FindPid_Last(_, _)
FindPid_Last(products, low_ai_text) ==
    IF products = <<>> THEN NoPid
    ELSE LET later == FindPid_Last(Tail(products), low_ai_text) IN
         IF later # NoPid THEN later
         ELSE IF Contains(low_ai_text, LowerText(Head(products).name))
              THEN Head(products).id
              ELSE NoPid

\* found_pid: the first product, in ALL_PRODUCTS order, whose lowered name is in
\* the lowered reply; NoPid for None
RECURSIVE FindPid(_, _)
FindPid(products, low_ai_text) ==
    IF products = <<>> THEN NoPid
    ELSE IF Contains(low_ai_text, LowerText(Head(products).name))
         THEN Head(products).id
         ELSE FindPid(Tail(products), low_ai_text)

\* AiBranch without `found_pid and`: a checkout word alone starts the checkout
AiBranch_NoItem(products, ai_text) ==
    LET low_ai_text == LowerText(ai_text)
        found_pid == FindPid(products, low_ai_text)
    IN  IF AnyIn(order_words, low_ai_text)
        THEN IF AnyIn(ready_words, low_ai_text)
             THEN [next |-> Order_name, pid |-> found_pid]
             ELSE [next |-> Order_confirm, pid |-> found_pid]
        ELSE [next |-> Order_ai_chat, pid |-> NoPid]

\* AiBranch without the immediacy test: every detected checkout asks to confirm
AiBranch_NeverReady(products, ai_text) ==
    LET low_ai_text == LowerText(ai_text)
        found_pid == FindPid(products, low_ai_text)
    IN  IF found_pid # NoPid /\ AnyIn(order_words, low_ai_text)
        THEN [next |-> Order_confirm, pid |-> found_pid]
        ELSE [next |-> Order_ai_chat, pid |-> NoPid]

\* the branch of ai_handler after the reply arrived (lines 262-291)
AiBranch(products, ai_text) ==
    LET low_ai_text == LowerText(ai_text)
        found_pid == FindPid(products, low_ai_text)
    IN  IF found_pid # NoPid /\ AnyIn(order_words, low_ai_text)
        THEN IF AnyIn(ready_words, low_ai_text)
             THEN [next |-> Order_name, pid |-> found_pid]
             ELSE [next |-> Order_confirm, pid |-> found_pid]
        ELSE [next |-> Order_ai_chat, pid |-> NoPid]

\* ai_handler whose except branch also clears the conversation
ai_handler_ResetsOnError(u, t) ==
    /\ Route(t, state[u]) = "ai_handler"
    /\ UNCHANGED Tables
    /\ Fixed
    /\ IF t = NoText
       THEN /\ out' = <<>>
            /\ UNCHANGED <<state, data>>
       ELSE \E r \in (IF client THEN AiReplies ELSE {}) \cup {ProviderError} :
            IF r = ProviderError
            THEN /\ out' = << Sent(u, "typing", <<>>) >>
                           \o (IF client THEN << Called(u, "generate", t, FALSE) >> ELSE <<>>)
                           \o << Sent(u, "ai_apology", <<>>) >>
                 /\ Clear(u)
            ELSE LET b == AiBranch(ALL_PRODUCTS, r) IN
                 /\ data' = IF b.pid # NoPid
                            THEN [data EXCEPT ![u].pid = b.pid]
                            ELSE data
                 /\ state' = [state EXCEPT ![u] = b.next]
                 /\ out' = << Sent(u, "typing", <<>>), Called(u, "generate", t, TRUE),
                              Sent(u, "ai_text", r) >>
                           \o (IF b.next = Order_name
                               THEN << Sent(u, "ask_name_ai", Product(b.pid).name) >>
                               ELSE <<>>)

ai_handler(u, t) ==
    /\ Route(t, state[u]) = "ai_handler"
    /\ UNCHANGED Tables
    /\ Fixed
    /\ IF t = NoText
       THEN /\ out' = <<>>
            /\ UNCHANGED <<state, data>>
       ELSE \E r \in (IF client THEN AiReplies ELSE {}) \cup {ProviderError} :
            IF r = ProviderError
            THEN /\ out' = << Sent(u, "typing", <<>>) >>
                           \o (IF client THEN << Called(u, "generate", t, FALSE) >> ELSE <<>>)
                           \o << Sent(u, "ai_apology", <<>>) >>
                 /\ UNCHANGED <<state, data>>
            ELSE LET b == AiBranch(ALL_PRODUCTS, r) IN
                 /\ data' = IF b.pid # NoPid
                            THEN [data EXCEPT ![u].pid = b.pid]
                            ELSE data
                 /\ state' = [state EXCEPT ![u] = b.next]
                 /\ out' = << Sent(u, "typing", <<>>), Called(u, "generate", t, TRUE),
                              Sent(u, "ai_text", r) >>
                           \o (IF b.next = Order_name
                               THEN << Sent(u, "ask_name_ai", Product(b.pid).name) >>
                               ELSE <<>>)

\* ------------------------------------------------------------- confirmation
\* ConfirmBranch without the sticky branch: what is not a yes is taken as a no
ConfirmBranch_NotSticky(text, pid, products) ==
    IF AnyIn(confirm_words, text)
    THEN IF pid # NoPid /\ \E i \in 1..Len(products) : products[i].id = pid
         THEN "ask_name"
         ELSE "item_lost"
    ELSE "cancelled"

\* ConfirmBranch with the negative vocabulary tested first
ConfirmBranch_NegativeFirst(text, pid, products) ==
    IF AnyIn(cancel_words, text)
    THEN "cancelled"
    ELSE IF AnyIn(confirm_words, text)
         THEN IF pid # NoPid /\ \E i \in 1..Len(products) : products[i].id = pid
              THEN "ask_name"
              ELSE "item_lost"
         ELSE "reprompt"

\* the branch of confirm_handler (lines 309-337), text already lowered and stripped
ConfirmBranch(text, pid, products) ==
    IF AnyIn(confirm_words, text)
    THEN IF pid # NoPid /\ \E i \in 1..Len(products) : products[i].id = pid
         THEN "ask_name"
         ELSE "item_lost"
    ELSE IF AnyIn(cancel_words, text)
         THEN "cancelled"
         ELSE "reprompt"

\* product_name in confirm_handler: the item's name, or the word for "item"
ProductNameOr(pid) ==
    IF InProducts(pid) THEN Product(pid).name ELSE <<"t","o","v","a","r">>

confirm_handler(u, t) ==
    /\ Route(t, state[u]) = "confirm_handler"
    /\ UNCHANGED <<data, Tables>>
    /\ Fixed
    /\ IF t = NoText
       THEN /\ out' = <<>>
            /\ UNCHANGED state
       ELSE LET text == Strip(LowerText(t))
                pid == data[u].pid
                b == ConfirmBranch(text, pid, ALL_PRODUCTS)
            IN  /\ out' = << Sent(u, b, IF b \in {"ask_name", "reprompt"}
                                        THEN ProductNameOr(pid) ELSE <<>>) >>
                /\ state' = [state EXCEPT ![u] =
                                CASE b = "ask_name" -> Order_name
                                  [] b \in {"item_lost", "cancelled"} -> Order_ai_chat
                                  [] OTHER -> @]

\* ---------------------------------------------------------------- wholesale
\* add_wholesale_request that stores the sender's username as the request body
add_wholesale_request_NoText(rows, dbOk, user_id, username, request_text) ==
    IF dbOk
    THEN Append(rows, [user_id |-> user_id, username |-> username,
                       request_text |-> username])
    ELSE rows

\* database.add_wholesale_request (89-100): the row is inserted, or the error is
\* logged and swallowed
add_wholesale_request(rows, dbOk, user_id, username, request_text) ==
    IF dbOk
    THEN Append(rows, [user_id |-> user_id, username |-> username,
                       request_text |-> request_text])
    ELSE rows

wholesale_handler(u, t) ==
    /\ Route(t, state[u]) = "wholesale_handler"
    /\ UNCHANGED <<users, orders>>
    /\ Fixed
    /\ IF t = NoText
       THEN /\ out' = <<>>
            /\ UNCHANGED <<state, data, wholesale_requests>>
       ELSE \E dbOk, notifyOk \in BOOLEAN :
            /\ wholesale_requests' =
                   add_wholesale_request(wholesale_requests, dbOk, u,
                       UsernameOr(u, <<"b","e","z"," ","u","s","e","r","n","a","m","e">>), t)
            /\ out' = << Called(u, "db:add_wholesale_request", t, dbOk),
                         Tried(ADMIN_ID, "wholesale_admin", t, notifyOk) >>
                      \o (IF notifyOk THEN << Sent(u, "wholesale_accepted", <<>>) >>
                          ELSE << Sent(u, "wholesale_apology", <<>>) >>)
            /\ Clear(u)

\* ----------------------------------------------------------------- checkout
process_name(u, t) ==
    /\ Route(t, state[u]) = "process_name"
    /\ data' = [data EXCEPT ![u].name = t]
    /\ out' = << Sent(u, "ask_contact", <<>>) >>
    /\ state' = [state EXCEPT ![u] = Order_contact]
    /\ UNCHANGED Tables
    /\ Fixed

\* add_order with customer_name and contact bound to each other's column
add_order_Swapped(rows, dbOk, user_id, user_name, customer_name, contact, item_id, item_name, item_price) ==
    IF dbOk
    THEN Append(rows, [user_id |-> user_id, user_name |-> user_name,
                       customer_name |-> contact, contact |-> customer_name,
                       item_id |-> item_id, item_name |-> item_name,
                       item_price |-> item_price, status |-> "new"])
    ELSE rows

\* database.add_order (76-87): the row is inserted, or the error is logged and
\* swallowed
add_order(rows, dbOk, user_id, user_name, customer_name, contact, item_id, item_name, item_price) ==
    IF dbOk
    THEN Append(rows, [user_id |-> user_id, user_name |-> user_name,
                       customer_name |-> customer_name, contact |-> contact,
                       item_id |-> item_id, item_name |-> item_name,
                       item_price |-> item_price, status |-> "new"])
    ELSE rows

\* process_contact that notifies the operator before it stores the order
process_contact_NotifiesFirst(u, t) ==
    /\ Route(t, state[u]) = "process_contact"
    /\ UNCHANGED <<users, wholesale_requests>>
    /\ Fixed
    /\ LET pid == data[u].pid IN
       IF pid = NoPid \/ ~InProducts(pid)
       THEN /\ out' = << Sent(u, "item_not_found", <<>>) >>
            /\ Clear(u)
            /\ UNCHANGED orders
       ELSE IF data[u].name = Missing
       THEN \* data['name'] raises KeyError: the handler ends there
            /\ out' = <<>>
            /\ UNCHANGED <<state, data, orders>>
       ELSE \E dbOk, notifyOk \in BOOLEAN :
            /\ orders' = add_order(orders, dbOk, u,
                             UsernameOr(u, <<"b","e","z"," ","u","s","e","r","n","a","m","e">>),
                             data[u].name, t, pid, Product(pid).name, Product(pid).price)
            /\ out' = << Tried(ADMIN_ID, "order_admin", <<pid>>, notifyOk),
                         Called(u, "db:add_order", <<pid>>, dbOk) >>
                      \o (IF notifyOk THEN << Sent(u, "order_accepted", <<>>) >>
                          ELSE << Sent(u, "order_apology", <<>>) >>)
            /\ Clear(u)

process_contact(u, t) ==
    /\ Route(t, state[u]) = "process_contact"
    /\ UNCHANGED <<users, wholesale_requests>>
    /\ Fixed
    /\ LET pid == data[u].pid IN
       IF pid = NoPid \/ ~InProducts(pid)
       THEN /\ out' = << Sent(u, "item_not_found", <<>>) >>
            /\ Clear(u)
            /\ UNCHANGED orders
       ELSE IF data[u].name = Missing
       THEN \* data['name'] raises KeyError: the handler ends there
            /\ out' = <<>>
            /\ UNCHANGED <<state, data, orders>>
       ELSE \E dbOk, notifyOk \in BOOLEAN :
            /\ orders' = add_order(orders, dbOk, u,
                             UsernameOr(u, <<"b","e","z"," ","u","s","e","r","n","a","m","e">>),
                             data[u].name, t, pid, Product(pid).name, Product(pid).price)
            /\ out' = << Called(u, "db:add_order", <<pid>>, dbOk),
                         Tried(ADMIN_ID, "order_admin", <<pid>>, notifyOk) >>
                      \o (IF notifyOk THEN << Sent(u, "order_accepted", <<>>) >>
                          ELSE << Sent(u, "order_apology", <<>>) >>)
            /\ Clear(u)

\* ---------------------------------------------------------------- broadcast
\* the rows of SELECT ... FROM users, in user_id (rowid) order
RECURSIVE Ascending(_)
Ascending(S) ==
    IF S = {} THEN <<>>
    ELSE LET m == CHOOSE x \in S : \A y \in S : x <= y
         IN  <<m>> \o Ascending(S \ {m})

\* database.get_all_users (102-112): the rows, or [] when the query fails
get_all_users(rows, dbOk) == IF dbOk THEN Ascending(rows) ELSE <<>>

\* one pass of the loop body (698-705) for recipient user_id
SendOne(acc, user_id, text, ok) ==
    IF ok
    THEN [acc EXCEPT !.sent = Append(@, Tried(user_id, "broadcast", text, TRUE)),
                     !.success = @ + 1]
    ELSE [acc EXCEPT !.sent = Append(@, Tried(user_id, "broadcast", text, FALSE)),
                     !.failed = @ + 1]

\* BroadcastLoop that gives up at the first send that raises
RECURSIVE BroadcastLoop_StopOnFailure(_, _, _, _)
BroadcastLoop_StopOnFailure(acc, recipients, text, failing) ==
    IF recipients = <<>> THEN acc
    ELSE IF Head(recipients) \in failing
         THEN SendOne(acc, Head(recipients), text, FALSE)
         ELSE BroadcastLoop_StopOnFailure(SendOne(acc, Head(recipients), text, TRUE),
                                          Tail(recipients), text, failing)

\* the loop (693-705) over recipients; failing: the recipients whose send raises
RECURSIVE BroadcastLoop(_, _, _, _)
BroadcastLoop(acc, recipients, text, failing) ==
    IF recipients = <<>> THEN acc
    ELSE BroadcastLoop(SendOne(acc, Head(recipients), text,
                               Head(recipients) \notin failing),
                       Tail(recipients), text, failing)

\* admin_broadcast_send that returns before state.clear() when there is nobody
\* to send to
admin_broadcast_send_StaysOnEmpty(u, t) ==
    /\ Route(t, state[u]) = "admin_broadcast_send"
    /\ UNCHANGED Tables
    /\ Fixed
    /\ IF u # ADMIN_ID
       THEN out' = <<>> /\ Clear(u)
       ELSE \E dbOk \in BOOLEAN :
            LET recipients == get_all_users(users, dbOk) IN
            IF recipients = <<>>
            THEN /\ out' = << Called(u, "db:get_all_users", <<>>, dbOk),
                              Sent(u, "no_users", <<>>) >>
                 /\ UNCHANGED <<state, data>>
            ELSE \E failing \in SUBSET users :
                 /\ t = NoText => failing = users
                 /\ Clear(u)
                 /\ LET r == BroadcastLoop([sent |-> <<>>, success |-> 0, failed |-> 0],
                                           recipients, t, failing)
                    IN  out' = << Called(u, "db:get_all_users", <<>>, dbOk),
                                  Sent(u, "broadcast_begin", <<ToString(Len(recipients))>>) >>
                               \o r.sent
                               \o << Sent(u, "broadcast_result",
                                          <<ToString(r.success), ToString(r.failed)>>) >>

admin_broadcast_send(u, t) ==
    /\ Route(t, state[u]) = "admin_broadcast_send"
    /\ UNCHANGED Tables
    /\ Fixed
    /\ Clear(u)
    /\ IF u # ADMIN_ID
       THEN out' = <<>>
       ELSE \E dbOk \in BOOLEAN :
            LET recipients == get_all_users(users, dbOk) IN
            IF recipients = <<>>
            THEN out' = << Called(u, "db:get_all_users", <<>>, dbOk),
                           Sent(u, "no_users", <<>>) >>
            ELSE \E failing \in SUBSET users :
                 \* send_message(text=None) is refused for every recipient
                 /\ t = NoText => failing = users
                 /\ LET r == BroadcastLoop([sent |-> <<>>, success |-> 0, failed |-> 0],
                                           recipients, t, failing)
                    IN  out' = << Called(u, "db:get_all_users", <<>>, dbOk),
                                  Sent(u, "broadcast_begin", <<ToString(Len(recipients))>>) >>
                               \o r.sent
                               \o << Sent(u, "broadcast_result",
                                          <<ToString(r.success), ToString(r.failed)>>) >>

\* ---------------------------------------------------------------- callbacks
\* callback.data, as the list data.split(":") gives
CallbackData ==
    {<<"cat", c>> : c \in CatCodes}
    \cup {<<"sub", c, sc>> : c \in CatCodes, sc \in SubcatCodes}
    \cup {<<"prod", p>> : p \in ItemIds}
    \cup {<<"buy", p>> : p \in ItemIds}
    \cup {<<"back", "main">>}
    \cup {<<"back", "cat", c>> : c \in CatCodes}
    \cup {<<"back", "sub", c, sc>> : c \in CatCodes, sc \in SubcatCodes}
    \cup {<<"admin", a>> : a \in {"stats", "orders", "wholesale", "broadcast"}}

\* the first registered callback handler whose filter accepts the data
RouteCb(d) ==
    CASE d[1] = "cat" -> "show_subcats"
      [] d[1] = "sub" -> "show_items"
      [] d[1] = "prod" -> "show_prod"
      [] d[1] = "buy" -> "buy_item"
      [] d = <<"back", "main">> -> "back_main"
      [] d[1] = "back" /\ d[2] = "cat" /\ Len(d) >= 3 -> "back_cat"
      [] d[1] = "back" /\ d[2] = "sub" /\ Len(d) >= 3 -> "back_sub"
      [] d = <<"admin", "stats">> -> "admin_stats"
      [] d = <<"admin", "orders">> -> "admin_orders"
      [] d = <<"admin", "wholesale">> -> "admin_wholesale"
      [] d = <<"admin", "broadcast">> -> "admin_broadcast_start"
      [] OTHER -> "unhandled"

\* Shows that also resets the conversation
Shows_Reset(u, d, sent) ==
    /\ out' = sent
    /\ Clear(u)
    /\ UNCHANGED Tables
    /\ Fixed

\* a handler that only shows something: the FSM storage and the tables stay
Shows(u, d, sent) ==
    /\ out' = sent
    /\ UNCHANGED <<state, data, Tables>>
    /\ Fixed

\* the test of the subcategory reduced to the test of its category
NoSubcat_CategoryOnly(cat_code, subcat_code) == ~InCatalog(cat_code)

\* `_, cat_code, subcat_code = callback.data.split(":")` with another number
\* of parts raises ValueError outside any try: the handler ends there, nothing is
\* sent and the callback is not answered
Unpacked == <<>>

\* cat_code not in CATALOG or subcat_code not in CATALOG[cat_code]["subcats"]
NoSubcat(cat_code, subcat_code) ==
    ~InCatalog(cat_code) \/ ~InSubcats(cat_code, subcat_code)

show_subcats(u, d) ==
    /\ RouteCb(d) = "show_subcats"
    /\ LET cat_code == d[2] IN
       IF ~InCatalog(cat_code)
       THEN Shows(u, d, << Sent(u, "ack_category_not_found", <<>>) >>)
       ELSE \E ok \in BOOLEAN :
            Shows(u, d, << Tried(u, "edit_subcats", <<cat_code>>, ok),
                           Sent(u, IF ok THEN "ack" ELSE "ack_display_error", <<>>) >>)

show_items(u, d) ==
    /\ RouteCb(d) = "show_items"
    /\ LET cat_code == d[2]
           subcat_code == d[3]
       IN  IF Len(d) # 3
           THEN Shows(u, d, Unpacked)
           ELSE IF NoSubcat(cat_code, subcat_code)
           THEN Shows(u, d, << Sent(u, "ack_subcategory_not_found", <<>>) >>)
           ELSE \E ok \in BOOLEAN :
                Shows(u, d, << Tried(u, "edit_items", <<cat_code, subcat_code>>, ok),
                               Sent(u, IF ok THEN "ack" ELSE "ack_display_error", <<>>) >>)

show_prod(u, d) ==
    /\ RouteCb(d) = "show_prod"
    /\ LET pid == d[2] IN
       IF ~InProducts(pid)
       THEN Shows(u, d, << Sent(u, "ack_item_not_found", <<>>) >>)
       ELSE \/ Shows(u, d, << Tried(u, "delete", <<>>, TRUE),
                              Tried(u, "photo_item", <<pid>>, TRUE),
                              Sent(u, "ack", <<>>) >>)
            \/ Shows(u, d, << Tried(u, "delete", <<>>, FALSE),
                              Sent(u, "ack_photo_error", <<>>) >>)
            \/ Shows(u, d, << Tried(u, "delete", <<>>, TRUE),
                              Tried(u, "photo_item", <<pid>>, FALSE),
                              Sent(u, "ack_photo_error", <<>>) >>)

\* buy_item that keeps a selection made earlier
buy_item_KeepsSelection(u, d) ==
    /\ RouteCb(d) = "buy_item"
    /\ UNCHANGED Tables
    /\ Fixed
    /\ LET pid == d[2] IN
       IF ~InProducts(pid)
       THEN /\ out' = << Sent(u, "ack_item_not_found", <<>>) >>
            /\ UNCHANGED <<state, data>>
       ELSE /\ data' = IF data[u].pid = NoPid THEN [data EXCEPT ![u].pid = pid] ELSE data
            /\ out' = << Sent(u, "ask_name_buy", Product(pid).name), Sent(u, "ack", <<>>) >>
            /\ state' = [state EXCEPT ![u] = Order_name]

buy_item(u, d) ==
    /\ RouteCb(d) = "buy_item"
    /\ UNCHANGED Tables
    /\ Fixed
    /\ LET pid == d[2] IN
       IF ~InProducts(pid)
       THEN /\ out' = << Sent(u, "ack_item_not_found", <<>>) >>
            /\ UNCHANGED <<state, data>>
       ELSE /\ data' = [data EXCEPT ![u].pid = pid]
            /\ out' = << Sent(u, "ask_name_buy", Product(pid).name), Sent(u, "ack", <<>>) >>
            /\ state' = [state EXCEPT ![u] = Order_name]

back_main(u, d) ==
    /\ RouteCb(d) = "back_main"
    /\ \E ok \in BOOLEAN :
       Shows(u, d, << Tried(u, "edit_categories", <<>>, ok) >>
                   \o (IF ok THEN << Sent(u, "ack", <<>>) >> ELSE <<>>))

back_cat(u, d) ==
    /\ RouteCb(d) = "back_cat"
    /\ LET cat_code == d[3] IN
       IF ~InCatalog(cat_code)
       THEN Shows(u, d, << Sent(u, "ack_category_not_found", <<>>) >>)
       ELSE \E ok \in BOOLEAN :
            Shows(u, d, << Tried(u, "edit_subcats", <<cat_code>>, ok) >>
                        \o (IF ok THEN << Sent(u, "ack", <<>>) >> ELSE <<>>))

back_sub(u, d) ==
    /\ RouteCb(d) = "back_sub"
    /\ LET cat_code == d[3]
           subcat_code == d[4]
       IN  IF Len(d) # 4
           THEN Shows(u, d, Unpacked)
           ELSE IF NoSubcat(cat_code, subcat_code)
           THEN Shows(u, d, << Sent(u, "ack_subcategory_not_found", <<>>) >>)
           ELSE \/ Shows(u, d, << Tried(u, "delete", <<>>, TRUE),
                                  Sent(u, "send_items", <<cat_code, subcat_code>>),
                                  Sent(u, "ack", <<>>) >>)
                \/ Shows(u, d, << Tried(u, "delete", <<>>, FALSE) >>)

\* --------------------------------------------------------------- admin panel
\* LIMIT n
Limit(n, k) == IF n < k THEN n ELSE k

\* admin_stats, admin_orders, admin_wholesale (582-663): a report, for the
\* operator only; a failing query reads as zero or as no rows
AdminReport(u, d, kind, count) ==
    IF u # ADMIN_ID
    THEN Shows(u, d, << Sent(u, "ack_no_access", <<>>) >>)
    ELSE \E dbOk, ok \in BOOLEAN :
         Shows(u, d, << Called(u, "db:select", <<>>, dbOk),
                        Tried(u, kind, [i \in DOMAIN count |->
                                           ToString(IF dbOk THEN count[i] ELSE 0)], ok),
                        Sent(u, IF ok THEN "ack" ELSE "ack_load_error", <<>>) >>)

admin_stats(u, d) ==
    /\ RouteCb(d) = "admin_stats"
    /\ AdminReport(u, d, "edit_stats", <<Cardinality(users), Len(orders)>>)

admin_orders(u, d) ==
    /\ RouteCb(d) = "admin_orders"
    /\ AdminReport(u, d, "edit_orders", <<Limit(Len(orders), 10)>>)

admin_wholesale(u, d) ==
    /\ RouteCb(d) = "admin_wholesale"
    /\ AdminReport(u, d, "edit_wholesale", <<Limit(Len(wholesale_requests), 5)>>)

\* admin_broadcast_start without the ADMIN_ID test
admin_broadcast_start_NoGate(u, d) ==
    /\ RouteCb(d) = "admin_broadcast_start"
    /\ UNCHANGED <<data, Tables>>
    /\ Fixed
    /\ \/ /\ out' = << Tried(u, "edit_broadcast_prompt", <<>>, TRUE),
                       Sent(u, "ack", <<>>) >>
          /\ state' = [state EXCEPT ![u] = AdminBroadcast_message]
       \/ /\ out' = << Tried(u, "edit_broadcast_prompt", <<>>, FALSE) >>
          /\ UNCHANGED state

admin_broadcast_start(u, d) ==
    /\ RouteCb(d) = "admin_broadcast_start"
    /\ UNCHANGED <<data, Tables>>
    /\ Fixed
    /\ IF u # ADMIN_ID
       THEN /\ out' = << Sent(u, "ack_no_access", <<>>) >>
            /\ UNCHANGED state
       ELSE \/ /\ out' = << Tried(u, "edit_broadcast_prompt", <<>>, TRUE),
                            Sent(u, "ack", <<>>) >>
               /\ state' = [state EXCEPT ![u] = AdminBroadcast_message]
            \/ \* edit_text raised: the handler ends before set_state
               /\ out' = << Tried(u, "edit_broadcast_prompt", <<>>, FALSE) >>
               /\ UNCHANGED state

\* ------------------------------------------------------------ specification
\* what a user in state st may send as a message: a command, a menu label, a
\* message without text, and a free text (every vocabulary class where the
\* text is matched against the vocabularies)
Inputs(st) ==
    CommandTexts \cup MenuTexts \cup {NoText}
    \cup (IF st = "Order:confirm" THEN FreeTexts ELSE DataTexts)

AllInputs == CommandTexts \cup MenuTexts \cup {NoText} \cup FreeTexts

\* user u sends the message t
Sends(u, t) == u \in senders /\ t \in Inputs(state[u])

\* the tables have room: a run is followed until MaxRows rows are written
Room == Len(orders) + Len(wholesale_requests) < MaxRows

\* the dispatcher handles one update at a time: a message or a callback that
\* changes the conversation
Next ==
    \E u \in Users :
        \/ \E t \in AllInputs : Room /\ Sends(u, t) /\ start(u, t)
        \/ \E t \in AllInputs : Room /\ Sends(u, t) /\ admin_panel(u, t)
        \/ \E t \in AllInputs : Room /\ Sends(u, t) /\ show_cats(u, t)
        \/ \E t \in AllInputs : Room /\ Sends(u, t) /\ ai_start(u, t)
        \/ \E t \in AllInputs : Room /\ Sends(u, t) /\ wholesale_start(u, t)
        \/ \E t \in AllInputs : Room /\ Sends(u, t) /\ ai_exit(u, t)
        \/ \E t \in AllInputs : Room /\ Sends(u, t) /\ ai_handler(u, t)
        \/ \E t \in AllInputs : Room /\ Sends(u, t) /\ confirm_handler(u, t)
        \/ \E t \in AllInputs : Room /\ Sends(u, t) /\ wholesale_handler(u, t)
        \/ \E t \in AllInputs : Room /\ Sends(u, t) /\ process_name(u, t)
        \/ \E t \in AllInputs : Room /\ Sends(u, t) /\ process_contact(u, t)
        \/ \E t \in AllInputs : Room /\ Sends(u, t) /\ admin_broadcast_send(u, t)
        \/ \E t \in AllInputs : Room /\ Sends(u, t) /\ unhandled(u, t)
        \/ \E d \in CallbackData : Room /\ u \in senders /\ buy_item(u, d)
        \/ \E d \in CallbackData : Room /\ u \in senders /\ admin_broadcast_start(u, d)

Spec == Init /\ [][Next]_vars

\* the same conversations with the catalog and the admin panel browsed in
\* between, followed until the first row is written
NoRows == orders = <<>> /\ wholesale_requests = <<>>

NextNav ==
    \E u \in Users :
        \/ \E t \in AllInputs : NoRows /\ Sends(u, t) /\ start(u, t)
        \/ \E t \in AllInputs : NoRows /\ Sends(u, t) /\ admin_panel(u, t)
        \/ \E t \in AllInputs : NoRows /\ Sends(u, t) /\ show_cats(u, t)
        \/ \E t \in AllInputs : NoRows /\ Sends(u, t) /\ ai_start(u, t)
        \/ \E t \in AllInputs : NoRows /\ Sends(u, t) /\ wholesale_start(u, t)
        \/ \E t \in AllInputs : NoRows /\ Sends(u, t) /\ ai_exit(u, t)
        \/ \E t \in AllInputs : NoRows /\ Sends(u, t) /\ ai_handler(u, t)
        \/ \E t \in AllInputs : NoRows /\ Sends(u, t) /\ confirm_handler(u, t)
        \/ \E t \in AllInputs : NoRows /\ Sends(u, t) /\ wholesale_handler(u, t)
        \/ \E t \in AllInputs : NoRows /\ Sends(u, t) /\ process_name(u, t)
        \/ \E t \in AllInputs : NoRows /\ Sends(u, t) /\ process_contact(u, t)
        \/ \E t \in AllInputs : NoRows /\ Sends(u, t) /\ admin_broadcast_send(u, t)
        \/ \E t \in AllInputs : NoRows /\ Sends(u, t) /\ unhandled(u, t)
        \/ \E d \in CallbackData : NoRows /\ u \in senders /\ buy_item(u, d)
        \/ \E d \in CallbackData : NoRows /\ u \in senders /\ admin_broadcast_start(u, d)
        \/ \E d \in CallbackData : NoRows /\ u \in senders /\ show_subcats(u, d)
        \/ \E d \in CallbackData : NoRows /\ u \in senders /\ show_items(u, d)
        \/ \E d \in CallbackData : NoRows /\ u \in senders /\ show_prod(u, d)
        \/ \E d \in CallbackData : NoRows /\ u \in senders /\ back_main(u, d)
        \/ \E d \in CallbackData : NoRows /\ u \in senders /\ back_cat(u, d)
        \/ \E d \in CallbackData : NoRows /\ u \in senders /\ back_sub(u, d)
        \/ \E d \in CallbackData : NoRows /\ u \in senders /\ admin_stats(u, d)
        \/ \E d \in CallbackData : NoRows /\ u \in senders /\ admin_orders(u, d)
        \/ \E d \in CallbackData : NoRows /\ u \in senders /\ admin_wholesale(u, d)

SpecNav == Init /\ [][NextNav]_vars

\* the same conversations and browsing, started with catalog.json present or
\* with catalog.json absent or unparsable (load_catalog returns {} and
\* ALL_PRODUCTS stays empty)
InitCatalogs ==
    /\ CATALOG \in {FullCatalog, EmptyCatalog}
    /\ ALL_PRODUCTS = BuildProducts(CATALOG)
    /\ client = TRUE
    /\ senders \in {{u} : u \in Users}
    /\ users = {}
    /\ InitStore

SpecCatalogs == InitCatalogs /\ [][NextNav]_vars

\* the callback data the keyboards of the catalogs offer, and the same tokens
\* with codes that no catalog has
AllCatCodes == CatCodes \cup {"c1:x"}
TokenData ==
    {Token(<<"cat">>, <<c>>) : c \in AllCatCodes}
    \cup {Token(<<"sub">>, <<c, sc>>) : c \in AllCatCodes, sc \in SubcatCodes}
    \cup {Token(<<"prod">>, <<p>>) : p \in ItemIds}
    \cup {Token(<<"buy">>, <<p>>) : p \in ItemIds}
    \cup {<<"back", "main">>}
    \cup {Token(<<"back", "cat">>, <<c>>) : c \in AllCatCodes}
    \cup {Token(<<"back", "sub">>, <<c, sc>>) : c \in AllCatCodes, sc \in SubcatCodes}

\* browsing and buying alone, under a catalog whose codes are plain and under
\* one with a ':' in a category code
InitTokens ==
    /\ CATALOG \in {FullCatalog, ColonCatalog}
    /\ ALL_PRODUCTS = BuildProducts(CATALOG)
    /\ client = TRUE
    /\ senders \in {{u} : u \in Users}
    /\ users = {}
    /\ InitStore

NextTokens ==
    \E u \in Users :
        \/ \E t \in AllInputs : Sends(u, t) /\ show_cats(u, t)
        \/ \E d \in TokenData : u \in senders /\ show_subcats(u, d)
        \/ \E d \in TokenData : u \in senders /\ show_items(u, d)
        \/ \E d \in TokenData : u \in senders /\ show_prod(u, d)
        \/ \E d \in TokenData : u \in senders /\ buy_item(u, d)
        \/ \E d \in TokenData : u \in senders /\ back_main(u, d)
        \/ \E d \in TokenData : u \in senders /\ back_cat(u, d)
        \/ \E d \in TokenData : u \in senders /\ back_sub(u, d)

SpecTokens == InitTokens /\ [][NextTokens]_vars

\* the AI chat under catalogs that order the same two items by category, by
\* subcategory and by position in one subcategory, and under no catalog
InitDetect ==
    /\ CATALOG \in {FullCatalog, SubcatsCatalog, ItemsCatalog, EmptyCatalog}
    /\ ALL_PRODUCTS = BuildProducts(CATALOG)
    /\ client = TRUE
    /\ senders \in {{u} : u \in Users}
    /\ users = {}
    /\ InitStore

NextDetect ==
    \E u \in Users :
        \/ \E t \in AllInputs : Sends(u, t) /\ show_cats(u, t)
        \/ \E t \in AllInputs : Sends(u, t) /\ ai_start(u, t)
        \/ \E t \in AllInputs : Sends(u, t) /\ ai_exit(u, t)
        \/ \E t \in AllInputs : Sends(u, t) /\ ai_handler(u, t)
        \/ \E t \in AllInputs : Sends(u, t) /\ confirm_handler(u, t)
        \/ \E t \in AllInputs : Sends(u, t) /\ process_name(u, t)

SpecDetect == InitDetect /\ [][NextDetect]_vars

\* the operator and another user talking in turns: updates of both are
\* handled one after the other in any order, until the first row is written
InitPair ==
    /\ CATALOG = FullCatalog
    /\ ALL_PRODUCTS = BuildProducts(CATALOG)
    /\ client = TRUE
    /\ senders = Users
    /\ users = {}
    /\ InitStore

PairInputs == {T_start, BTN_CATALOG, BTN_AI, T_plain}
PairData == {<<"buy", "p1">>, <<"admin", "broadcast">>}

NextPair ==
    \E u \in Users :
        \/ \E t \in PairInputs : NoRows /\ Sends(u, t) /\ start(u, t)
        \/ \E t \in PairInputs : NoRows /\ Sends(u, t) /\ show_cats(u, t)
        \/ \E t \in PairInputs : NoRows /\ Sends(u, t) /\ ai_start(u, t)
        \/ \E t \in PairInputs : NoRows /\ Sends(u, t) /\ ai_handler(u, t)
        \/ \E t \in PairInputs : NoRows /\ Sends(u, t) /\ process_name(u, t)
        \/ \E t \in PairInputs : NoRows /\ Sends(u, t) /\ process_contact(u, t)
        \/ \E t \in PairInputs : NoRows /\ Sends(u, t) /\ admin_broadcast_send(u, t)
        \/ \E d \in PairData : NoRows /\ u \in senders /\ buy_item(u, d)
        \/ \E d \in PairData : NoRows /\ u \in senders /\ admin_broadcast_start(u, d)

SpecPair == InitPair /\ [][NextPair]_vars

\* the conversations of Spec, with the provider client constructed or with
\* AsyncOpenAI(...) having raised at startup (client = None)
InitClients ==
    /\ CATALOG = FullCatalog
    /\ ALL_PRODUCTS = BuildProducts(CATALOG)
    /\ client \in BOOLEAN
    /\ senders \in {{u} : u \in Users}
    /\ users = {}
    /\ InitStore

SpecClients == InitClients /\ [][Next]_vars

\* ------------------------------------------------------------ interleaving
\* start_polling handles every update in a task of its own (handle_as_tasks)
\* and the dispatcher has no event isolation: a handler runs until it awaits a
\* send or the provider, is suspended there, and the handlers of other
\* updates, of the same user too, run before it resumes. The writes to the
\* memory storage do not suspend.
Suspended(u, at, arg) == [user |-> u, at |-> at, arg |-> arg]

Startup == UNCHANGED <<CATALOG, ALL_PRODUCTS, client, senders>>

\* buy_item up to the await of message.answer
buy_item_begin(u, d) ==
    /\ RouteCb(d) = "buy_item"
    /\ Cardinality(tasks) < MaxTasks
    /\ UNCHANGED <<state, Tables>>
    /\ Startup
    /\ LET pid == d[2] IN
       IF ~InProducts(pid)
       THEN /\ out' = << Sent(u, "ack_item_not_found", <<>>) >>
            /\ UNCHANGED <<data, tasks>>
       ELSE /\ data' = [data EXCEPT ![u].pid = pid]
            /\ out' = << Sent(u, "ask_name_buy", Product(pid).name) >>
            /\ tasks' = tasks \cup {Suspended(u, "buy_item", <<>>)}

\* buy_item from state.set_state(Order.name) on
buy_item_resume(u) ==
    /\ Suspended(u, "buy_item", <<>>) \in tasks
    /\ tasks' = tasks \ {Suspended(u, "buy_item", <<>>)}
    /\ state' = [state EXCEPT ![u] = Order_name]
    /\ out' = << Sent(u, "ack", <<>>) >>
    /\ UNCHANGED <<data, Tables>>
    /\ Startup

\* process_name up to the await of message.answer
process_name_begin(u, t) ==
    /\ Route(t, state[u]) = "process_name"
    /\ Cardinality(tasks) < MaxTasks
    /\ data' = [data EXCEPT ![u].name = t]
    /\ out' = << Sent(u, "ask_contact", <<>>) >>
    /\ tasks' = tasks \cup {Suspended(u, "process_name", <<>>)}
    /\ UNCHANGED <<state, Tables>>
    /\ Startup

\* process_name from state.set_state(Order.contact) on
process_name_resume(u) ==
    /\ Suspended(u, "process_name", <<>>) \in tasks
    /\ tasks' = tasks \ {Suspended(u, "process_name", <<>>)}
    /\ state' = [state EXCEPT ![u] = Order_contact]
    /\ out' = <<>>
    /\ UNCHANGED <<data, Tables>>
    /\ Startup

\* ai_handler up to the await of the provider's answer
ai_handler_begin(u, t) ==
    /\ Route(t, state[u]) = "ai_handler"
    /\ Cardinality(tasks) < MaxTasks
    /\ UNCHANGED <<state, data, Tables>>
    /\ Startup
    /\ IF t = NoText
       THEN out' = <<>> /\ UNCHANGED tasks
       ELSE /\ out' = << Sent(u, "typing", <<>>) >>
            /\ tasks' = tasks \cup {Suspended(u, "ai_handler:create", t)}

\* ai_handler from the provider's answer to the end, or to the await of the
\* second message.answer of the branch that starts the checkout at once
ai_handler_reply(u, t) ==
    /\ Suspended(u, "ai_handler:create", t) \in tasks
    /\ UNCHANGED Tables
    /\ Startup
    /\ \E r \in (IF client THEN AiReplies ELSE {}) \cup {ProviderError} :
       IF r = ProviderError
       THEN /\ out' = (IF client THEN << Called(u, "generate", t, FALSE) >> ELSE <<>>)
                      \o << Sent(u, "ai_apology", <<>>) >>
            /\ tasks' = tasks \ {Suspended(u, "ai_handler:create", t)}
            /\ UNCHANGED <<state, data>>
       ELSE LET b == AiBranch(ALL_PRODUCTS, r) IN
            /\ data' = IF b.pid # NoPid THEN [data EXCEPT ![u].pid = b.pid] ELSE data
            /\ out' = << Called(u, "generate", t, TRUE), Sent(u, "ai_text", r) >>
            /\ state' = IF b.next = Order_confirm
                        THEN [state EXCEPT ![u] = Order_confirm]
                        ELSE state
            /\ tasks' = (tasks \ {Suspended(u, "ai_handler:create", t)})
                        \cup (IF b.next = Order_name
                              THEN {Suspended(u, "ai_handler:name", <<b.pid>>)}
                              ELSE {})

\* ai_handler after its first message.answer in that branch: the prompt for
\* the name, then state.set_state(Order.name)
ai_handler_resume(u, pid) ==
    /\ Suspended(u, "ai_handler:name", <<pid>>) \in tasks
    /\ tasks' = tasks \ {Suspended(u, "ai_handler:name", <<pid>>)}
    /\ out' = << Sent(u, "ask_name_ai", ProductNameOr(pid)) >>
    /\ state' = [state EXCEPT ![u] = Order_name]
    /\ UNCHANGED <<data, Tables>>
    /\ Startup

\* show_cats and ai_start write the storage before their only await, so each is
\* one step here too
NextTasks ==
    \E u \in Users :
        \/ \E t \in AllInputs : Sends(u, t) /\ show_cats(u, t)
        \/ \E t \in AllInputs : Sends(u, t) /\ ai_start(u, t)
        \/ \E d \in CallbackData : u \in senders /\ buy_item_begin(u, d)
        \/ buy_item_resume(u)
        \/ \E t \in AllInputs : Sends(u, t) /\ process_name_begin(u, t)
        \/ process_name_resume(u)
        \/ \E t \in AllInputs : Sends(u, t) /\ ai_handler_begin(u, t)
        \/ \E t \in AllInputs : ai_handler_reply(u, t)
        \/ \E pid \in ItemIds : ai_handler_resume(u, pid)

SpecTasks == Init /\ [][NextTasks]_vars

\* the operator's broadcasts, for every set of registered users: the operator
\* alone talks: /start registers them, /admin shows the panel, the panel's
\* button opens the broadcast prompt, the next message is broadcast
InitBroadcast ==
    /\ CATALOG = FullCatalog
    /\ ALL_PRODUCTS = BuildProducts(CATALOG)
    /\ client = TRUE
    /\ senders = {ADMIN_ID}
    /\ users \in SUBSET (1..MaxRecipients)
    /\ InitStore

NextBroadcast ==
    \E u \in Users :
        \/ \E t \in AllInputs : Sends(u, t) /\ start(u, t)
        \/ \E t \in AllInputs : Sends(u, t) /\ admin_panel(u, t)
        \/ \E d \in CallbackData : u \in senders /\ admin_broadcast_start(u, d)
        \/ \E t \in AllInputs : Sends(u, t) /\ admin_broadcast_send(u, t)

SpecBroadcast == InitBroadcast /\ [][NextBroadcast]_vars

\* ------------------------------------------------------------------ events
\* user u's message t is handled, by whichever handler the dispatcher picks
Message(u, t) ==
    \/ start(u, t)
    \/ admin_panel(u, t)
    \/ show_cats(u, t)
    \/ ai_start(u, t)
    \/ wholesale_start(u, t)
    \/ ai_exit(u, t)
    \/ ai_handler(u, t)
    \/ confirm_handler(u, t)
    \/ wholesale_handler(u, t)
    \/ process_name(u, t)
    \/ process_contact(u, t)
    \/ admin_broadcast_send(u, t)
    \/ unhandled(u, t)

\* user u's callback d is handled by a handler that changes the conversation
Callback(u, d) ==
    \/ buy_item(u, d)
    \/ admin_broadcast_start(u, d)

\* user u's callback d is handled by a handler that shows a screen or a report
Browse(u, d) ==
    \/ show_subcats(u, d)
    \/ show_items(u, d)
    \/ show_prod(u, d)
    \/ back_main(u, d)
    \/ back_cat(u, d)
    \/ back_sub(u, d)
    \/ admin_stats(u, d)
    \/ admin_orders(u, d)
    \/ admin_wholesale(u, d)

\* user u's message t is handled by the one handler the dispatcher picks
Deliver(u, t) ==
    LET h == Route(t, state[u]) IN
    CASE h = "start" -> start(u, t)
      [] h = "admin_panel" -> admin_panel(u, t)
      [] h = "show_cats" -> show_cats(u, t)
      [] h = "ai_start" -> ai_start(u, t)
      [] h = "wholesale_start" -> wholesale_start(u, t)
      [] h = "ai_exit" -> ai_exit(u, t)
      [] h = "ai_handler" -> ai_handler(u, t)
      [] h = "confirm_handler" -> confirm_handler(u, t)
      [] h = "wholesale_handler" -> wholesale_handler(u, t)
      [] h = "process_name" -> process_name(u, t)
      [] h = "process_contact" -> process_contact(u, t)
      [] h = "admin_broadcast_send" -> admin_broadcast_send(u, t)
      [] h = "unhandled" -> unhandled(u, t)
      [] OTHER -> FALSE

\* user u's callback d is handled by the one handler its data selects
Dispatch(u, d) ==
    LET h == RouteCb(d) IN
    CASE h = "show_subcats" -> show_subcats(u, d)
      [] h = "show_items" -> show_items(u, d)
      [] h = "show_prod" -> show_prod(u, d)
      [] h = "buy_item" -> buy_item(u, d)
      [] h = "back_main" -> back_main(u, d)
      [] h = "back_cat" -> back_cat(u, d)
      [] h = "back_sub" -> back_sub(u, d)
      [] h = "admin_stats" -> admin_stats(u, d)
      [] h = "admin_orders" -> admin_orders(u, d)
      [] h = "admin_wholesale" -> admin_wholesale(u, d)
      [] h = "admin_broadcast_start" -> admin_broadcast_start(u, d)
      [] OTHER -> FALSE

\* ------------------------------------------------------------------ claims
\* the text matches confirm_handler's affirmative vocabulary
Affirmative(t) == t # NoText /\ AnyIn(confirm_words, Strip(LowerText(t)))
\* the text matches confirm_handler's negative vocabulary
Negative(t) == t # NoText /\ AnyIn(cancel_words, Strip(LowerText(t)))
\* a /start or /admin command, or one of the four menu labels
Reserved(t) ==
    \/ t \in MenuTexts
    \/ IsCommand(t, <<"s","t","a","r","t">>)
    \/ IsCommand(t, <<"a","d","m","i","n">>)
\* no provider request among the calls
NoGenerate(calls) == \A i \in 1..Len(calls) : calls[i].kind # "generate"
\* the yes/no re-prompt, and nothing else, went to u
Reprompted(u, calls) ==
    Len(calls) = 1 /\ calls[1].kind = "reprompt" /\ calls[1].to = u /\ calls[1].ok

\* C1, as stated: in AwaitingConfirmation every message that matches neither
\* vocabulary is answered by the yes/no re-prompt, keeps the state and makes no
\* provider request.
C1_Original ==
    [][\A u \in Users : \A t \in AllInputs :
        (state[u] = Order_confirm /\ Message(u, t) /\ ~Affirmative(t) /\ ~Negative(t))
        => (state'[u] = Order_confirm /\ Reprompted(u, out') /\ NoGenerate(out'))]_vars

\* C1, amended: in AwaitingConfirmation no event makes a provider request, and
\* every text that is neither a command nor a menu label and matches neither
\* vocabulary is answered by the yes/no re-prompt alone and keeps the state and
\* the context.
C1_Sticky ==
    [][\A u \in Users :
        /\ \A d \in CallbackData :
             (state[u] = Order_confirm /\ Callback(u, d)) => NoGenerate(out')
        /\ \A t \in AllInputs :
             (state[u] = Order_confirm /\ Message(u, t))
             => /\ NoGenerate(out')
                /\ (t # NoText /\ ~Reserved(t) /\ ~Affirmative(t) /\ ~Negative(t))
                   => /\ state'[u] = Order_confirm
                      /\ data' = data
                      /\ Reprompted(u, out')
                      /\ out'[1].arg = Product(data[u].pid).name]_vars

\* a user in AwaitingConfirmation who has just been re-prompted
C1_Witness ==
    \E u \in Users : state[u] = Order_confirm /\ Reprompted(u, out)

\* the three states of the checkout that need a selected item
NeedItem == {Order_name, Order_contact, Order_confirm}

\* C2: after every sequence of events a user in AwaitingName, AwaitingContact or
\* AwaitingConfirmation has a selected item that is a key of ALL_PRODUCTS, and
\* AwaitingContact is entered from AwaitingName only.
C2_SelectedItem ==
    /\ [](\A u \in Users : state[u] \in NeedItem => InProducts(data[u].pid))
    /\ [][\A u \in Users :
            (state'[u] = Order_contact /\ state[u] # Order_contact)
            => state[u] = Order_name]_vars

\* a user asked for a contact, with the second item of the catalog selected
C2_Witness ==
    \E u \in Users :
        /\ state[u] = Order_contact
        /\ data[u].pid = "p2"
        /\ Len(out) = 1 /\ out[1].kind = "ask_contact"

\* a text the checkout takes as data: not a command and not a menu label
Plain(t) == t # NoText /\ ~Reserved(t)

\* the Order that buy(X), name, contact of user u must leave
OrderOf(u, pid, name, contact) ==
    [user_id |-> u, user_name |-> UsernameOr(u, <<"b","e","z"," ","u","s","e","r","n","a","m","e">>),
     customer_name |-> name, contact |-> contact,
     item_id |-> pid, item_name |-> Product(pid).name, item_price |-> Product(pid).price,
     status |-> "new"]

\* buy(X) selects X and asks for the name; the name text is stored next to X
\* and the contact is asked for
CheckoutCollects(u) ==
    /\ \A pid \in ItemIds :
         (InProducts(pid) /\ buy_item(u, <<"buy", pid>>))
         => (state'[u] = Order_name /\ data'[u].pid = pid)
    /\ \A t \in AllInputs :
         (state[u] = Order_name /\ Plain(t) /\ Message(u, t))
         => (state'[u] = Order_contact /\ data'[u] = [pid |-> data[u].pid, name |-> t])

\* the storage append of the step succeeded
Appended(calls) == Len(calls) >= 1 /\ calls[1].kind = "db:add_order" /\ calls[1].ok

\* C3, as stated: buy(X), a name text, a contact text append exactly one Order
\* with X's id, name and price and the two texts, and leave the user in Idle
\* with an empty context; no other transition appends an Order.
C3_Original ==
    [][/\ (\A u \in Users :
        /\ CheckoutCollects(u)
        /\ \A t \in AllInputs :
             (state[u] = Order_contact /\ Plain(t) /\ Message(u, t))
             => /\ orders' = Append(orders, OrderOf(u, data[u].pid, data[u].name, t))
                /\ state'[u] = NoState /\ data'[u] = EmptyData)
       /\ (orders' # orders
           => \E u \in Users : \E t \in AllInputs :
                 state[u] = Order_contact /\ process_contact(u, t))]_vars

\* C3, amended: buy(X), a name text, a contact text (texts that are neither a
\* command nor a menu label) leave the user in Idle with an empty context and
\* append exactly one Order with X's id, name and price and the two texts when
\* the storage append succeeds, and none when it fails; no other transition
\* appends an Order.
C3_Checkout ==
    [][/\ (\A u \in Users :
        /\ CheckoutCollects(u)
        /\ \A t \in AllInputs :
             (state[u] = Order_contact /\ Plain(t) /\ Message(u, t))
             => /\ orders' = IF Appended(out')
                             THEN Append(orders, OrderOf(u, data[u].pid, data[u].name, t))
                             ELSE orders
                /\ state'[u] = NoState /\ data'[u] = EmptyData)
       /\ (orders' # orders
           => \E u \in Users : \E t \in AllInputs :
                 state[u] = Order_contact /\ process_contact(u, t))]_vars

\* the Order of a completed checkout of the second item is stored, its sender in
\* Idle with an empty context
C3_Witness ==
    \E u \in Users :
        /\ Appended(out) /\ out[1].to = u
        /\ Len(orders) = 1 /\ orders[1].item_id = "p2" /\ orders[1].item_price = "200"
        /\ orders[1].customer_name # orders[1].contact
        /\ state[u] = NoState /\ data[u] = EmptyData

\* the sends of a broadcast that has reported its result, in the order made
Attempts == SubSeq(out, 3, Len(out) - 1)
Reported == Len(out) >= 3 /\ out[Len(out)].kind = "broadcast_result"
\* how many of the attempts ended as ok says
Count(a, ok) == Cardinality({i \in 1..Len(a) : a[i].ok = ok})

\* C4: a broadcast attempts each recipient exactly once in list order, whatever
\* sends fail, and reports success = the sends that succeeded, failed = the
\* sends that failed, success + failed = the number of recipients.
C4_Accounting ==
    Reported =>
        LET a == Attempts
            result == out[Len(out)].arg
        IN  /\ [i \in 1..Len(a) |-> a[i].to] = get_all_users(users, TRUE)
            /\ \A i \in 1..Len(a) : a[i].kind = "broadcast" /\ a[i].arg = a[1].arg
            /\ out[2].arg = <<ToString(Cardinality(users))>>
            /\ result = <<ToString(Count(a, TRUE)), ToString(Count(a, FALSE))>>
            /\ Count(a, TRUE) + Count(a, FALSE) = Cardinality(users)

\* a reported broadcast in which a send failed and a later one succeeded
C4_Witness ==
    /\ Reported
    /\ \E i, j \in 1..Len(Attempts) : i < j /\ ~Attempts[i].ok /\ Attempts[j].ok

\* the Intent Detector's three answers, from the reply text
WantsCheckout(r) == AnyIn(order_words, LowerText(r))
ReadyImmediately(r) == AnyIn(ready_words, LowerText(r))
Names(r, pid) == InProducts(pid) /\ Contains(LowerText(r), LowerText(Product(pid).name))
\* pid is the first item, in catalog order, that the reply names
FirstNamed(r, pid) ==
    \E i \in 1..Len(ALL_PRODUCTS) :
        /\ ALL_PRODUCTS[i].id = pid
        /\ Names(r, pid)
        /\ \A j \in 1..(i - 1) : ~Names(r, ALL_PRODUCTS[j].id)
\* user u's text t in AiChat was answered by the provider with r
Replied(u, t, r) ==
    /\ state[u] = Order_ai_chat
    /\ Len(out') >= 3 /\ out'[3] = Sent(u, "ai_text", r)
    /\ out'[2].arg = t
    /\ ai_handler(u, t)

\* C5, as stated: a reply that signals checkout and immediacy stores the item
\* and leads to AwaitingName, one that signals checkout without immediacy stores
\* the item and leads to AwaitingConfirmation, every other reply keeps AiChat
\* and the context.
C5_Original ==
    [][\A u \in Users : \A r \in AiReplies : \A t \in AllInputs :
        Replied(u, t, r)
        => IF WantsCheckout(r)
           THEN /\ state'[u] = (IF ReadyImmediately(r) THEN Order_name ELSE Order_confirm)
                /\ InProducts(data'[u].pid)
           ELSE state'[u] = Order_ai_chat /\ data' = data]_vars

\* C5, amended: a reply that names a catalog item and signals checkout stores
\* the first item it names, in catalog order, and leads to AwaitingName when it
\* also signals immediacy and to AwaitingConfirmation when it does not; every
\* other reply, one that signals checkout without naming an item included,
\* keeps AiChat and the context.
C5_Detect ==
    [][\A u \in Users : \A r \in AiReplies : \A t \in AllInputs :
        Replied(u, t, r)
        => IF WantsCheckout(r) /\ \E p \in ItemIds : Names(r, p)
           THEN /\ state'[u] = (IF ReadyImmediately(r) THEN Order_name ELSE Order_confirm)
                /\ FirstNamed(r, data'[u].pid)
                /\ data'[u].name = data[u].name
                /\ Len(out') = (IF ReadyImmediately(r) THEN 4 ELSE 3)
           ELSE state'[u] = Order_ai_chat /\ data' = data /\ Len(out') = 3]_vars

\* a reply naming both items and a checkout word led to AwaitingConfirmation
\* with the first of them selected
C5_Witness ==
    \E u \in Users :
        /\ state[u] = Order_confirm
        /\ Len(out) = 3 /\ out[3] = Sent(u, "ai_text", R_two_items)
        /\ data[u].pid = "p1"

\* C6, as stated: in AwaitingConfirmation an affirmative text leads to
\* AwaitingName when the selected item is in the catalog and to AiChat with the
\* 'item lost' notice otherwise, a negative text leads to AiChat, and the
\* selected item stays.
C6_Original ==
    [][\A u \in Users : \A t \in AllInputs :
        (state[u] = Order_confirm /\ Message(u, t))
        => /\ Affirmative(t)
              => IF InProducts(data[u].pid)
                 THEN state'[u] = Order_name
                 ELSE state'[u] = Order_ai_chat /\ out'[1].kind = "item_lost"
           /\ Negative(t) => state'[u] = Order_ai_chat
           /\ (Affirmative(t) \/ Negative(t)) => data'[u].pid = data[u].pid]_vars

\* C6, amended: in AwaitingConfirmation the selected item is always in the
\* catalog, so the 'item lost' notice is never sent; a text that is neither a
\* command nor a menu label leads to AwaitingName with the name prompt when it
\* matches the affirmative vocabulary, and to AiChat with the cancellation
\* notice when it matches the negative vocabulary and not the affirmative one;
\* the context stays as it was.
C6_Confirm ==
    [][\A u \in Users : \A t \in AllInputs :
        (state[u] = Order_confirm /\ Plain(t) /\ Message(u, t))
        => /\ InProducts(data[u].pid)
           /\ \A i \in 1..Len(out') : out'[i].kind # "item_lost"
           /\ Affirmative(t)
              => /\ state'[u] = Order_name
                 /\ out' = << Sent(u, "ask_name", Product(data[u].pid).name) >>
           /\ (Negative(t) /\ ~Affirmative(t))
              => /\ state'[u] = Order_ai_chat
                 /\ out' = << Sent(u, "cancelled", <<>>) >>
           /\ data' = data]_vars

\* a user whose confirmation was accepted is asked for the name
C6_Witness ==
    \E u \in Users :
        /\ state[u] = Order_name
        /\ Len(out) = 1 /\ out[1].kind = "ask_name" /\ out[1].to = u

\* C7: in every state the 'exit chat' input sets the user's state to Idle and
\* empties the context, and appends neither an Order nor a WholesaleRequest.
C7_Exit ==
    [][\A u \in Users :
        Message(u, BTN_EXIT)
        => /\ state'[u] = NoState
           /\ data'[u] = EmptyData
           /\ orders' = orders
           /\ wholesale_requests' = wholesale_requests
           /\ out' = << Sent(u, "main_menu", <<>>) >>]_vars

\* a user back in Idle, context empty, after 'exit chat'
C7_Witness ==
    \E u \in Users :
        /\ out = << Sent(u, "main_menu", <<>>) >>
        /\ state[u] = NoState /\ data[u] = EmptyData

\* C8: in every state buy(X) for a catalog item X stores X as the selected item,
\* in place of any earlier one, and sets the state to AwaitingName in the same
\* step.
C8_Buy ==
    [][\A u \in Users : \A pid \in ItemIds :
        (InProducts(pid) /\ buy_item(u, <<"buy", pid>>))
        => /\ state'[u] = Order_name
           /\ data'[u] = [data[u] EXCEPT !.pid = pid]
           /\ UNCHANGED Tables]_vars

\* buy of the second item by a user who had given a name in an earlier checkout
C8_Witness ==
    \E u \in Users :
        /\ state[u] = Order_name
        /\ Len(out) = 2 /\ out[1].kind = "ask_name_buy"
        /\ data[u].pid = "p2" /\ data[u].name # Missing

\* a catalog browsing event of user u
Navigates(u, d) ==
    \/ show_subcats(u, d)
    \/ show_items(u, d)
    \/ show_prod(u, d)
    \/ back_main(u, d)
    \/ back_cat(u, d)
    \/ back_sub(u, d)

\* C9: the six catalog browsing events leave every user's state and context
\* unchanged, in every state and for known and unknown codes (written as
\* "unchanged, or not a browsing event", the cheaper disjunct first).
C9_Frame ==
    [][\A u \in Users : \A d \in CallbackData :
        (state' = state /\ data' = data /\ UNCHANGED Tables) \/ ~Navigates(u, d)]_vars

\* a user in AwaitingContact who has just browsed to an unknown subcategory
C9_Witness ==
    \E u \in Users :
        /\ state[u] = Order_contact /\ data[u].pid = "p1"
        /\ out = << Sent(u, "ack_subcategory_not_found", <<>>) >>

\* C10: in Wholesale a free text is persisted, then the operator is notified,
\* then the user gets the confirmation; exactly one WholesaleRequest with the
\* text and the user's id is appended; the state is Idle afterwards, also when
\* the persist or the notification fails.
C10_Wholesale ==
    [][\A u \in Users : \A t \in AllInputs :
        (state[u] = Order_wholesale /\ Plain(t) /\ Message(u, t))
        => /\ state'[u] = NoState /\ data'[u] = EmptyData
           /\ Len(out') = 3
           /\ out'[1].kind = "db:add_wholesale_request" /\ out'[1].arg = t
           /\ out'[2].kind = "wholesale_admin" /\ out'[2].to = ADMIN_ID /\ out'[2].arg = t
           /\ out'[3].to = u
           /\ out'[3].kind = (IF out'[2].ok THEN "wholesale_accepted" ELSE "wholesale_apology")
           /\ IF out'[1].ok
              THEN /\ Len(wholesale_requests') = Len(wholesale_requests) + 1
                   /\ SubSeq(wholesale_requests', 1, Len(wholesale_requests)) = wholesale_requests
                   /\ wholesale_requests'[Len(wholesale_requests')].request_text = t
                   /\ wholesale_requests'[Len(wholesale_requests')].user_id = u
              ELSE wholesale_requests' = wholesale_requests
           /\ orders' = orders]_vars

\* a stored request of a user who got the confirmation and is in Idle
C10_Witness ==
    \E u \in Users :
        /\ Len(out) = 3 /\ out[1].ok /\ out[3] = Sent(u, "wholesale_accepted", <<>>)
        /\ Len(wholesale_requests) = 1
        /\ wholesale_requests[1].user_id = u
        /\ wholesale_requests[1].request_text = out[1].arg
        /\ state[u] = NoState

\* user u's text t in AiChat met a failing provider request
ProviderFailed(u, t) ==
    /\ state[u] = Order_ai_chat
    /\ Len(out') >= 2 /\ out'[2] = Called(u, "generate", t, FALSE)
    /\ ai_handler(u, t)

\* C11: when the provider request fails in AiChat the user gets the apology and
\* state, context and tables are what they were, so that the same text sent
\* again is handled by ai_handler again.
C11_ProviderFailure ==
    [][\A u \in Users : \A t \in AllInputs :
        ProviderFailed(u, t)
        => /\ out' = << Sent(u, "typing", <<>>), Called(u, "generate", t, FALSE),
                        Sent(u, "ai_apology", <<>>) >>
           /\ state' = state /\ data' = data
           /\ UNCHANGED Tables
           /\ Route(t, state'[u]) = "ai_handler"]_vars

\* a user in AiChat with an item selected earlier who has just got the apology
C11_Witness ==
    \E u \in Users :
        /\ state[u] = Order_ai_chat /\ data[u].pid = "p1"
        /\ Len(out) = 3 /\ out[2].kind = "generate" /\ ~out[2].ok
        /\ out[3] = Sent(u, "ai_apology", <<>>)

\* C12, as stated: when the Order append fails in checkout completion the user
\* gets the apology, not the 'order accepted' confirmation, and the state is
\* cleared to Idle.
C12_Original ==
    [][\A u \in Users : \A t \in AllInputs :
        (state[u] = Order_contact /\ process_contact(u, t)
         /\ Len(out') = 3 /\ out'[1].kind = "db:add_order" /\ ~out'[1].ok)
        => /\ out'[3] = Sent(u, "order_apology", <<>>)
           /\ state'[u] = NoState]_vars

\* C13: after every event, error paths included, every user's state is one of
\* the seven defined states, and some input of the user (the 'exit chat' label)
\* leads from it to Idle.
C13_NeverStuck ==
    \A u \in Users :
        /\ state[u] \in States
        /\ ENABLED (Message(u, BTN_EXIT) /\ state'[u] = NoState)

\* a user after a checkout completion in which both the storage append and the
\* operator notification failed
C13_Witness ==
    \E u \in Users :
        /\ Len(out) = 3 /\ out[1].kind = "db:add_order" /\ ~out[1].ok
        /\ out[2].kind = "order_admin" /\ ~out[2].ok
        /\ out[3] = Sent(u, "order_apology", <<>>)
        /\ state[u] \in States

\* a send of the broadcast loop is among the calls
Broadcasts(calls) == \E i \in 1..Len(calls) : calls[i].kind = "broadcast"
\* a broadcast message reached a recipient
Delivered(calls) == \E i \in 1..Len(calls) : calls[i].kind = "broadcast" /\ calls[i].ok

\* C14: a user who is not the operator is never in AdminAwaitingBroadcastText
\* and no step of theirs makes a broadcast send; a broadcast send is made only
\* by the operator's message in AdminAwaitingBroadcastText, and reaches a
\* recipient only when that message is a text.
C14_Gating ==
    /\ [](\A u \in Users \ {ADMIN_ID} : state[u] # AdminBroadcast_message)
    /\ [][Broadcasts(out')
          => /\ state[ADMIN_ID] = AdminBroadcast_message
             /\ \E t \in AllInputs :
                  /\ admin_broadcast_send(ADMIN_ID, t)
                  /\ Delivered(out') => t # NoText]_vars

\* the operator's broadcast has reached a recipient
C14_Witness ==
    /\ Delivered(out)
    /\ out[Len(out)].kind = "broadcast_result"
    /\ state[ADMIN_ID] = NoState

\* the sends of the broadcast loop among the calls
BroadcastSends(calls) == {i \in 1..Len(calls) : calls[i].kind = "broadcast"}

StorageWorked(calls) ==
    \A i \in 1..Len(calls) :
        calls[i].kind \in {"db:add_user", "db:add_order", "db:add_wholesale_request",
                           "db:get_all_users", "db:select"} => calls[i].ok

\* C16, as stated: every inbound message of a user creates or refreshes the
\* user's record (the storage working), so that whoever has sent a message is in
\* the table the broadcast iterates.
C16_Original ==
    [][\A u \in Users : \A t \in AllInputs :
        (Message(u, t) /\ StorageWorked(out')) => u \in users']_vars

\* C17: with an absent or empty catalog, the 'catalog' menu label answers
\* 'catalog unavailable' alone and leaves the user in Idle; from every state
\* the AI chat and the wholesale mode can be entered, and a wholesale request
\* whose insert succeeds is appended; no user is ever awaiting a name, a contact
\* or a confirmation, no selection is ever held and no order is ever stored
C17_NoCatalog ==
    /\ [](CATALOG = EmptyCatalog
          => /\ ALL_PRODUCTS = <<>>
             /\ orders = <<>>
             /\ \A u \in Users :
                  /\ state[u] \notin NeedItem
                  /\ data[u].pid = NoPid
                  /\ ENABLED (Message(u, BTN_AI) /\ state'[u] = Order_ai_chat)
                  /\ ENABLED (Message(u, BTN_WHOLESALE) /\ state'[u] = Order_wholesale))
    /\ [][CATALOG = EmptyCatalog
          => \A u \in Users : \A t \in AllInputs :
               /\ (t = BTN_CATALOG /\ Message(u, t))
                  => /\ out' = << Sent(u, "catalog_unavailable", <<>>) >>
                     /\ state'[u] = NoState /\ data'[u] = EmptyData
               /\ (state[u] = Order_wholesale /\ Plain(t) /\ Message(u, t)
                   /\ out'[1].ok)
                  => wholesale_requests' =
                         Append(wholesale_requests,
                                [user_id |-> u,
                                 username |-> wholesale_requests'[Len(wholesale_requests')].username,
                                 request_text |-> t])]_vars

\* without a catalog: a wholesale request stored after the user asked for the
\* catalog and was refused
C17_Witness ==
    /\ CATALOG = EmptyCatalog
    /\ Len(wholesale_requests) = 1
    /\ orders = <<>>
    /\ \E u \in Users :
         /\ wholesale_requests[1].user_id = u
         /\ state[u] = NoState
         /\ out[3] = Sent(u, "wholesale_accepted", <<>>)

\* the catalog has a category c, a subcategory sc in its category c, an item p
KnownCat(c) == \E i \in 1..Len(CATALOG) : CATALOG[i].code = c
KnownSubcat(c, sc) ==
    \E i \in 1..Len(CATALOG) :
        /\ CATALOG[i].code = c
        /\ \E j \in 1..Len(CATALOG[i].subcats) : CATALOG[i].subcats[j].code = sc
KnownItem(p) ==
    \E i \in 1..Len(CATALOG) : \E j \in 1..Len(CATALOG[i].subcats) :
        \E k \in 1..Len(CATALOG[i].subcats[j].items) :
            CATALOG[i].subcats[j].items[k].id = p

\* the acknowledgement owed to a navigation or purchase token that names
\* something the catalog does not have; "none" when it names what exists
NotFound(d) ==
    CASE d[1] = "cat" /\ ~KnownCat(d[2]) -> "ack_category_not_found"
      [] d[1] = "sub" /\ ~KnownSubcat(d[2], d[3]) -> "ack_subcategory_not_found"
      [] d[1] \in {"prod", "buy"} /\ ~KnownItem(d[2]) -> "ack_item_not_found"
      [] Len(d) = 3 /\ d[1] = "back" /\ d[2] = "cat" /\ ~KnownCat(d[3])
           -> "ack_category_not_found"
      [] Len(d) = 4 /\ d[1] = "back" /\ d[2] = "sub" /\ ~KnownSubcat(d[3], d[4])
           -> "ack_subcategory_not_found"
      [] OTHER -> "none"

CatList(u) ==
    {<< Tried(u, "edit_categories", <<>>, TRUE), Sent(u, "ack", <<>>) >>,
     << Tried(u, "edit_categories", <<>>, FALSE) >>}
SubcatList(u, c) ==
    {<< Tried(u, "edit_subcats", <<c>>, TRUE), Sent(u, "ack", <<>>) >>,
     << Tried(u, "edit_subcats", <<c>>, FALSE) >>}
ItemList(u, c, sc) ==
    {<< Tried(u, "delete", <<>>, TRUE), Sent(u, "send_items", <<c, sc>>),
        Sent(u, "ack", <<>>) >>,
     << Tried(u, "delete", <<>>, FALSE) >>}

\* what handling the back token d may send, from d and the catalog alone
BackOutcomes(u, d) ==
    CASE d = <<"back", "main">> -> CatList(u)
      [] d[2] = "cat" ->
           IF KnownCat(d[3]) THEN SubcatList(u, d[3])
           ELSE {<< Sent(u, "ack_category_not_found", <<>>) >>}
      [] d[2] = "sub" /\ Len(d) = 4 ->
           IF KnownSubcat(d[3], d[4]) THEN ItemList(u, d[3], d[4])
           ELSE {<< Sent(u, "ack_subcategory_not_found", <<>>) >>}
      [] OTHER -> {<<>>}

\* the last button of a keyboard
BackTarget(kb) == kb[Len(kb)].callback_data

\* the places <<i, j, k>> of the catalog's items
Places ==
    {pl \in (1..2) \X (1..2) \X (1..2) :
        /\ pl[1] <= Len(CATALOG)
        /\ pl[2] <= Len(CATALOG[pl[1]].subcats)
        /\ pl[3] <= Len(CATALOG[pl[1]].subcats[pl[2]].items)}

\* C19 as stated: handling a back token leaves the conversation alone and
\* sends what the token and the catalog determine, whatever was sent before
\* (so a second press sends what the first did); the back button under the
\* view of an item leads to the item list of the item's own category and
\* subcategory, the one under that list to the subcategory list of the
\* category, and the one under that list to the category list
C19_Original ==
    [][\A u \in Users :
        /\ \A d \in TokenData :
             (d[1] = "back" /\ Dispatch(u, d))
             => /\ state' = state /\ data' = data /\ UNCHANGED Tables
                /\ out' \in BackOutcomes(u, d)
        /\ \A pl \in Places :
             LET c == CATALOG[pl[1]].code
                 sc == CATALOG[pl[1]].subcats[pl[2]].code
                 p == CATALOG[pl[1]].subcats[pl[2]].items[pl[3]].id
             IN  /\ (/\ Len(out) = 3
                     /\ out[2] = Tried(u, "photo_item", <<p>>, TRUE)
                     /\ Dispatch(u, BackTarget(get_prod_kb(p))))
                    => out' \in ItemList(u, c, sc)
                 /\ (/\ Len(out) >= 2
                     /\ \/ out[1] = Tried(u, "edit_items", <<c, sc>>, TRUE)
                        \/ out[2] = Sent(u, "send_items", <<c, sc>>)
                     /\ Dispatch(u, BackTarget(get_items_kb(c, sc))))
                    => out' \in SubcatList(u, c)
                 /\ (/\ Len(out) >= 1
                     /\ out[1] = Tried(u, "edit_subcats", <<c>>, TRUE)
                     /\ Dispatch(u, BackTarget(get_subcats_kb(c))))
                    => out' \in CatList(u)]_vars

\* place a comes before place b in the catalog's iteration order: categories,
\* then subcategories, then items
Before(a, b) ==
    \/ a[1] < b[1]
    \/ a[1] = b[1] /\ a[2] < b[2]
    \/ a[1] = b[1] /\ a[2] = b[2] /\ a[3] < b[3]

ItemAt(pl) == CATALOG[pl[1]].subcats[pl[2]].items[pl[3]]

\* the display name of the item at place pl occurs in r, letter case aside
NamedAt(r, pl) == Contains(LowerText(r), LowerText(ItemAt(pl).name))

\* the item r refers to: the first one, in iteration order, that r names
Referenced(r) ==
    IF \E pl \in Places : NamedAt(r, pl)
    THEN ItemAt(CHOOSE pl \in Places :
                   /\ NamedAt(r, pl)
                   /\ \A q \in Places : NamedAt(r, q) => ~Before(q, pl)).id
    ELSE NoPid

\* C20: the search of ai_handler finds, for every reply, the first item in the
\* catalog's iteration order whose name occurs in the reply whatever the letter
\* case, and none when no name occurs; what ai_handler does with a reply is
\* determined by the reply and the catalog through (referenced item, checkout
\* word present, immediacy word present), whatever the conversation held before
C20_Detect ==
    /\ [](\A r \in AiReplies : FindPid(ALL_PRODUCTS, LowerText(r)) = Referenced(r))
    /\ [][\A u \in Users : \A r \in AiReplies : \A t \in AllInputs :
            Replied(u, t, r)
            => LET referencedItem == Referenced(r)
                   wantsCheckout == WantsCheckout(r)
                   readyImmediately == ReadyImmediately(r)
               IN  IF referencedItem # NoPid /\ wantsCheckout
                   THEN /\ data'[u].pid = referencedItem
                        /\ state'[u] = (IF readyImmediately THEN Order_name
                                        ELSE Order_confirm)
                   ELSE /\ data'[u].pid = data[u].pid
                        /\ state'[u] = Order_ai_chat]_vars

\* the reply that names both items, in small letters where the catalog has
\* capitals, selected the item that comes first in their subcategory (under
\* FullCatalog the same reply selects the other item, first by category)
C20_Witness ==
    /\ CATALOG = ItemsCatalog
    /\ \E u \in Users :
         /\ Len(out) = 3
         /\ out[3] = Sent(u, "ai_text", R_two_items)
         /\ state[u] = Order_confirm
         /\ data[u].pid = "p2"

\* an update of user u is handled
Handles(u) ==
    \/ \E t \in AllInputs : Deliver(u, t)
    \/ \E d \in CallbackData : Dispatch(u, d)

\* C21: handling an update of one user, the operator's broadcast that sends to
\* the other user included, leaves the state and the data of every other user
\* as they were
C21_Independence ==
    [][\A u \in Users : \A v \in Users \ {u} :
        \/ state'[v] = state[v] /\ data'[v] = data[v]
        \/ ~Handles(u)]_vars

\* the operator's broadcast was delivered to the other user, who is in the
\* middle of a checkout with an item and a name collected
C21_Witness ==
    \E v \in Users \ {ADMIN_ID} :
        /\ \E i \in 1..Len(out) : out[i].kind = "broadcast" /\ out[i].to = v /\ out[i].ok
        /\ state[ADMIN_ID] = NoState
        /\ state[v] = Order_contact
        /\ data[v].pid = "p1" /\ data[v].name = T_plain

\* C22 as stated: whatever the interleaving of the handlers of one user's
\* updates, a user awaiting a name or a contact holds a selected item, and a
\* user awaiting a contact holds a collected name
C22_Original ==
    \A u \in Users :
        /\ state[u] \in {Order_name, Order_contact} => data[u].pid # NoPid
        /\ state[u] = Order_contact => data[u].name # Missing

\* C23 as stated: from Idle the 'AI assistant' label leaves the state AiChat,
\* the 'wholesale' label Wholesale and the 'catalog' label Idle
C23_Original ==
    [][\A u \in Users :
        state[u] = NoState
        => /\ Deliver(u, BTN_AI) => state'[u] = Order_ai_chat
           /\ Deliver(u, BTN_WHOLESALE) => state'[u] = Order_wholesale
           /\ Deliver(u, BTN_CATALOG) => state'[u] = NoState]_vars

\* C23, amended: from Idle the 'AI assistant' label leaves the state AiChat
\* when the provider client exists, and sends the notice alone and leaves the
\* state Idle when it does not; the 'wholesale' label leaves the state
\* Wholesale and the 'catalog' label Idle; the context stays empty
C23_Menu ==
    [][\A u \in Users :
        state[u] = NoState
        => /\ Deliver(u, BTN_AI)
              => IF client
                 THEN /\ state'[u] = Order_ai_chat
                      /\ out' = << Sent(u, "ai_activated", <<>>) >>
                 ELSE /\ state'[u] = NoState
                      /\ out' = << Sent(u, "ai_unavailable", <<>>) >>
           /\ Deliver(u, BTN_WHOLESALE)
              => /\ state'[u] = Order_wholesale
                 /\ out' = << Sent(u, "wholesale_prompt", <<>>) >>
           /\ Deliver(u, BTN_CATALOG)
              => /\ state'[u] = NoState
                 /\ out' = << Sent(u, "choose_category", <<>>) >>
           /\ \A t \in {BTN_AI, BTN_WHOLESALE, BTN_CATALOG} :
                Deliver(u, t) => data'[u] = EmptyData /\ UNCHANGED Tables]_vars

\* without a client, a user in Idle who chose the assistant got the notice and
\* is in Idle
C23_Witness ==
    /\ ~client
    /\ \E u \in Users :
         /\ out = << Sent(u, "ai_unavailable", <<>>) >>
         /\ state[u] = NoState /\ data[u] = EmptyData

\* the places of the calls of one kind in a handler's calls
Places_of(calls, kind) == {i \in 1..Len(calls) : calls[i].kind = kind}

\* C24: when a message of a user awaiting a contact is handled, the operator
\* is notified only after the order insert was attempted, 'order accepted' is
\* sent only after the notification succeeded, and a failed notification ends
\* with the apology and no confirmation, with the order stored when its insert
\* succeeded, and with the user in Idle and an empty context
C24_Ordering ==
    [][\A u \in Users : \A t \in AllInputs :
        (state[u] = Order_contact /\ Deliver(u, t))
        => /\ \A i \in Places_of(out', "order_admin") :
                /\ out'[i].to = ADMIN_ID
                /\ \E j \in Places_of(out', "db:add_order") : j < i
           /\ \A i \in Places_of(out', "order_accepted") :
                \E j \in Places_of(out', "order_admin") : j < i /\ out'[j].ok
           /\ \A j \in Places_of(out', "order_admin") :
                ~out'[j].ok
                => /\ Places_of(out', "order_accepted") = {}
                   /\ out'[Len(out')] = Sent(u, "order_apology", <<>>)
                   /\ state'[u] = NoState /\ data'[u] = EmptyData
                   /\ Len(orders') = Len(orders) + (IF out'[1].ok THEN 1 ELSE 0)
           /\ Places_of(out', "db:add_order") # {} => Places_of(out', "order_admin") # {}]_vars

\* an order is stored, the operator's notification failed, the user got the
\* apology and is in Idle
C24_Witness ==
    /\ Len(orders) = 1
    /\ \E u \in Users :
         /\ orders[1].user_id = u
         /\ Len(out) = 3
         /\ out[1].kind = "db:add_order" /\ out[1].ok
         /\ out[2].kind = "order_admin" /\ ~out[2].ok
         /\ out[3] = Sent(u, "order_apology", <<>>)
         /\ state[u] = NoState /\ data[u] = EmptyData

\* C25 as stated: a message without text leaves a user who awaits a name or a
\* contact where they are, and every stored order has a text as its customer
\* name and a text as its contact
C25_Original ==
    /\ [][\A u \in Users :
            (state[u] \in {Order_name, Order_contact} /\ Deliver(u, NoText))
            => state'[u] = state[u]]_vars
    /\ [](\A i \in 1..Len(orders) :
            orders[i].customer_name # NoText /\ orders[i].contact # NoText)

\* the four menu labels and the /start commands
MenuInputs == MenuTexts \cup {T_start, T_start_arg}

\* C26: in every state a menu label or a /start command is handled by its own
\* handler: it is not stored as a name, not written to a table, not passed to
\* the provider, to the operator or to a broadcast; the 'catalog' label and
\* /start leave the user in Idle with an empty context. No stored order or
\* request holds a menu label or a /start command.
C26_Precedence ==
    /\ [][\A u \in Users : \A t \in MenuInputs :
            Deliver(u, t)
            => /\ Route(t, state[u]) \in {"start", "show_cats", "ai_start",
                                          "wholesale_start", "ai_exit"}
               /\ \A i \in 1..Len(out') :
                    /\ out'[i].arg # t
                    /\ out'[i].kind \notin {"generate", "broadcast", "db:add_order",
                                            "db:add_wholesale_request"}
               /\ data'[u].name # t
               /\ orders' = orders /\ wholesale_requests' = wholesale_requests
               /\ (t = BTN_CATALOG \/ IsCommand(t, <<"s","t","a","r","t">>))
                  => state'[u] = NoState /\ data'[u] = EmptyData]_vars
    /\ [](\A i \in 1..Len(orders) :
               orders[i].customer_name \notin MenuInputs /\ orders[i].contact \notin MenuInputs)
    /\ [](\A j \in 1..Len(wholesale_requests) :
               wholesale_requests[j].request_text \notin MenuInputs)

\* a user whose checkout had collected an item and a name chose 'wholesale'
\* when asked for the contact: the label opened the wholesale mode
C26_Witness ==
    \E u \in Users :
        /\ out = << Sent(u, "wholesale_prompt", <<>>) >>
        /\ state[u] = Order_wholesale
        /\ data[u].pid = "p1" /\ data[u].name = T_plain
        /\ orders = <<>>

\* C27, as stated: in AwaitingConfirmation with a selected item of the catalog,
\* every text that holds an affirmative and a negative word moves the user to
\* AwaitingName.
C27_Original ==
    [][\A u \in Users : \A t \in AllInputs :
        (/\ state[u] = Order_confirm
         /\ InProducts(data[u].pid)
         /\ Affirmative(t) /\ Negative(t)
         /\ Deliver(u, t))
        => state'[u] = Order_name]_vars

\* C27, amended: in AwaitingConfirmation with a selected item of the catalog, a
\* text that is neither a command nor a menu label and holds an affirmative and
\* a negative word is a confirmation: the user moves to AwaitingName with the
\* name prompt, no cancellation notice is sent and the context is kept.
C27_AffirmativeFirst ==
    [][\A u \in Users : \A t \in AllInputs :
        (/\ state[u] = Order_confirm
         /\ InProducts(data[u].pid)
         /\ Plain(t) /\ Affirmative(t) /\ Negative(t)
         /\ Deliver(u, t))
        => /\ Route(t, state[u]) = "confirm_handler"
           /\ state'[u] = Order_name
           /\ state'[u] # Order_ai_chat
           /\ \A i \in 1..Len(out') : out'[i].kind # "cancelled"
           /\ out' = << Sent(u, "ask_name", Product(data[u].pid).name) >>
           /\ data'[u] = data[u]]_vars

\* a user was asked for the name of the buyer of item p1, an item for which the
\* text "da net" is a confirmation
C27_Witness ==
    \E u \in Users :
        /\ state[u] = Order_name
        /\ data[u].pid = "p1"
        /\ out = << Sent(u, "ask_name", Product("p1").name) >>
        /\ Affirmative(T_yes_no) /\ Negative(T_yes_no) /\ Plain(T_yes_no)
        /\ ConfirmBranch(Strip(LowerText(T_yes_no)), data[u].pid, ALL_PRODUCTS) = "ask_name"

====
